---- MODULE Spec2Model ----
(***************************************************************************)
(* The rule engine of backend/app/services/rule_engine.py:                  *)
(* ConditionEvaluator.evaluate, ActionExecutor.execute and                  *)
(* RuleEngine.evaluate_transaction, over a heap of dict and list objects.   *)
(***************************************************************************)
EXTENDS Integers, Sequences, FiniteSets, TLC

\* ------------------------------------------------------------------ bounds

\* Longest rule list handed to evaluate_transaction.
MaxRules == 2

\* ------------------------------------------------------------ Python values

\* A Python value is a tagged record; a str carries its text, a datetime its
\* day number, a list the address of the list object in `lists`.
PyNone == [t |-> "None", v |-> 0]
PyBool(b) == [t |-> "bool", v |-> b]
PyInt(n) == [t |-> "int", v |-> n]
PyStr(s) == [t |-> "str", v |-> s]
PyDate(d) == [t |-> "datetime", v |-> d]
PyList(a) == [t |-> "list", v |-> a]

\* The ISO-8601 texts of the model, in calendar order: IsoTexts[d] is day d.
IsoTexts == <<"2024-01-01", "2024-01-15", "2024-01-31">>

\* The decimal-digit texts of the model in lexicographic (str <) order, and
\* the integer each one denotes.
DigitTexts == <<"10", "5">>
DigitValue == <<10, 5>>

\* A list written out in a condition: it carries its items.
PyListOf(items) == [t |-> "list", v |-> items]

\* isinstance(value, dict): a dict is a record of its keys, and no dict of the
\* model has a key "t".
IsDict(value) == "t" \notin DOMAIN value

\* isinstance(value, int): bool is a subclass of int.
IsInt(value) == value.t \in {"int", "bool"}

\* The merchant texts of the model with their str.lower(), and the pairs
\* (a, b) of lowered texts with a in b.
LowerOf ==
    [text \in {"Trader Joe's", "Shell Gas", "joe", "GAS", ""} |->
        CASE text = "Trader Joe's" -> "trader joe's"
          [] text = "Shell Gas" -> "shell gas"
          [] text = "GAS" -> "gas"
          [] OTHER -> text]

SubstringPairs ==
    { <<"joe", "trader joe's">>, <<"gas", "shell gas">>,
      <<"", "trader joe's">>, <<"", "shell gas">>, <<"", "">> }

\* The regular expressions of the model that re.compile accepts, and the pairs
\* (pattern, text) for which re.search(pattern, text, re.IGNORECASE) finds a
\* match; every other pattern raises re.error in re.compile and in re.search.
CompilingPatterns == {"^trader", "gas$", ""}

SearchPairs ==
    { <<"^trader", "Trader Joe's">>, <<"gas$", "Shell Gas">>,
      <<"", "Trader Joe's">>, <<"", "Shell Gas">>, <<"", "">> }

IndexIn(seq, x) == CHOOSE k \in 1..Len(seq) : seq[k] = x

Range(seq) == {seq[k] : k \in 1..Len(seq)}

\* dict.get(key, default), d[key] = value, d.pop(key)
Get(d, key, default) == IF key \in DOMAIN d THEN d[key] ELSE default

Put(d, key, value) == [k \in DOMAIN d \cup {key} |-> IF k = key THEN value ELSE d[k]]

Pop(d, key) == [k \in DOMAIN d \ {key} |-> d[k]]

\* bool(value) for the values the engine tests.
Truthy(value) ==
    CASE value.t = "None" -> FALSE
      [] value.t = "bool" -> value.v
      [] value.t = "int" -> value.v # 0
      [] value.t = "str" -> value.v # ""
      [] OTHER -> TRUE

\* The outcome of an expression: a value, or the exception it raised.
Ok(value) == [raised |-> FALSE, val |-> value, err |-> ""]
Raise(message) == [raised |-> TRUE, val |-> FALSE, err |-> message]

\* datetime.fromisoformat(value)
fromisoformat(value) ==
    IF value.t # "str" THEN Raise("fromisoformat: argument must be str")
    ELSE IF value.v \in Range(IsoTexts) THEN Ok(IndexIn(IsoTexts, value.v))
    ELSE Raise("Invalid isoformat string")

\* float(value)
FloatOf(value) ==
    CASE value.t \in {"int", "bool", "float"} -> Ok(value)
      [] value.t = "str" ->
            IF value.v \in Range(DigitTexts) THEN Ok(value)
            ELSE Raise("ValueError: could not convert string to float")
      [] OTHER -> Raise("TypeError: float() argument must be a string or a real number")

\* int(value)
IntOf(value) ==
    CASE value.t \in {"int", "bool"} -> Ok(value)
      [] value.t = "str" ->
            IF value.v \in Range(DigitTexts) THEN Ok(value)
            ELSE Raise("ValueError: invalid literal for int()")
      [] OTHER -> Raise("TypeError: int() argument must be a string or a real number")

\* re.compile(pattern)
ReCompile(pattern) ==
    IF pattern \in CompilingPatterns THEN Ok(pattern) ELSE Raise("re.error")

\* re.search(pattern, text, re.IGNORECASE) found a match
ReSearch(pattern, text) ==
    IF pattern \in CompilingPatterns THEN Ok(<<pattern, text>> \in SearchPairs)
    ELSE Raise("re.error")

\* Mutant of DecimalOfStr: a float is cut to whole units.
DecimalOfStrWhole(value) ==
    CASE value.t = "int" -> Ok(value.v * 100)
      [] value.t = "float" -> Ok(IF value.v >= 0 THEN (value.v \div 100) * 100
                                 ELSE -(((-value.v) \div 100) * 100))
      [] value.t = "str" /\ value.v \in Range(DigitTexts) ->
            Ok(DigitValue[IndexIn(DigitTexts, value.v)] * 100)
      [] OTHER -> Raise("decimal.InvalidOperation")

\* Decimal(str(value)), as a number of hundredths. A float of the model is a
\* whole number v of hundredths: str() gives the shortest text that reads
\* back as the same float, which for such a float is the decimal v / 100
\* itself, so the Decimal is exact. str(True) is no number.
DecimalOfStr(value) ==
    CASE value.t = "int" -> Ok(value.v * 100)
      [] value.t = "float" -> Ok(value.v)
      [] value.t = "str" /\ value.v \in Range(DigitTexts) ->
            Ok(DigitValue[IndexIn(DigitTexts, value.v)] * 100)
      [] OTHER -> Raise("decimal.InvalidOperation")

\* ------------------------------------------------- ConditionEvaluator.evaluate

AmountOperators == {"amount_gt", "amount_gte", "amount_lt", "amount_lte", "amount_eq"}

AmountCompare(operator, a, b) ==
    CASE operator = "amount_gt" -> a > b
      [] operator = "amount_gte" -> a >= b
      [] operator = "amount_lt" -> a < b
      [] operator = "amount_lte" -> a =< b
      [] operator = "amount_eq" -> a = b

EvaluateAmount(condition, transaction) ==
    LET amount == DecimalOfStr(Get(transaction, "amount", PyInt(0)))
        value == DecimalOfStr(Get(condition, "value", PyInt(0)))
    IN  IF amount.raised THEN amount
        ELSE IF value.raised THEN value
        ELSE Ok(AmountCompare(condition.operator, amount.val, value.val))

\* Mutant: the end of the range is exclusive.
EvaluateDateRangeExclusive(condition, transaction) ==
    LET raw == Get(transaction, "transaction_date", PyNone)
        parsed == IF raw.t = "str" THEN fromisoformat(raw) ELSE Ok(0)
        start == fromisoformat(Get(condition, "start", PyStr("")))
        end == fromisoformat(Get(condition, "end", PyStr("")))
    IN  IF parsed.raised THEN parsed
        ELSE IF start.raised THEN start
        ELSE IF end.raised THEN end
        ELSE IF raw.t = "str" THEN Ok(start.val =< parsed.val /\ parsed.val < end.val)
        ELSE IF raw.t = "datetime" THEN Ok(start.val =< raw.v /\ raw.v < end.val)
        ELSE Raise("'<=' not supported between instances of 'datetime.datetime' and 'NoneType'")

EvaluateDateRange(condition, transaction) ==
    LET raw == Get(transaction, "transaction_date", PyNone)
        parsed == IF raw.t = "str" THEN fromisoformat(raw) ELSE Ok(0)
        start == fromisoformat(Get(condition, "start", PyStr("")))
        end == fromisoformat(Get(condition, "end", PyStr("")))
    IN  IF parsed.raised THEN parsed
        ELSE IF start.raised THEN start
        ELSE IF end.raised THEN end
        ELSE IF raw.t = "str" THEN Ok(start.val =< parsed.val /\ parsed.val =< end.val)
        ELSE IF raw.t = "datetime" THEN Ok(start.val =< raw.v /\ raw.v =< end.val)
        ELSE Raise("'<=' not supported between instances of 'datetime.datetime' and 'NoneType'")

\* Lines 124-127.
EvaluateMerchantContains(condition, transaction) ==
    LET merchant == Get(transaction, "description", PyStr(""))
        value == Get(condition, "value", PyStr(""))
    IN  IF merchant.t # "str" THEN Raise("AttributeError: object has no attribute 'lower'")
        ELSE IF value.t # "str" THEN Raise("AttributeError: object has no attribute 'lower'")
        ELSE Ok(<<LowerOf[value.v], LowerOf[merchant.v]>> \in SubstringPairs)

\* Lines 129-135: re.error is caught and gives False.
EvaluateMerchantRegex(condition, transaction) ==
    LET merchant == Get(transaction, "description", PyStr(""))
        pattern == Get(condition, "value", PyStr(""))
    IN  IF pattern.t # "str"
        THEN Raise("TypeError: first argument must be string or compiled pattern")
        ELSE IF merchant.t # "str"
        THEN IF ReCompile(pattern.v).raised THEN Ok(FALSE)
             ELSE Raise("TypeError: expected string or bytes-like object")
        ELSE LET found == ReSearch(pattern.v, merchant.v)
             IN  IF found.raised THEN Ok(FALSE) ELSE found

RECURSIVE evaluate(_, _)
RECURSIVE EvaluateAny(_, _)
RECURSIVE EvaluateAll(_, _)

\* Mutant of EvaluateAny: every child has to hold.
EvaluateAnyAsAll(conditions, transaction) == EvaluateAll(conditions, transaction)

\* any(evaluate(c, transaction) for c in conditions): stops at the first true
\* child; an exception of a child reached before it propagates.
EvaluateAny(conditions, transaction) ==
    IF conditions = <<>> THEN Ok(FALSE)
    ELSE LET first == evaluate(Head(conditions), transaction)
         IN  IF first.raised \/ first.val THEN first
             ELSE EvaluateAny(Tail(conditions), transaction)

EvaluateAll(conditions, transaction) ==
    IF conditions = <<>> THEN Ok(TRUE)
    ELSE LET first == evaluate(Head(conditions), transaction)
         IN  IF first.raised \/ ~first.val THEN first
             ELSE EvaluateAll(Tail(conditions), transaction)

\* evaluate(condition, transaction): the value returned, or the exception.
evaluate(condition, transaction) ==
    LET operator == Get(condition, "operator", "")
        conditions == Get(condition, "conditions", PyListOf(<<>>)).v
    IN  CASE operator = "any" -> EvaluateAny(conditions, transaction)
          [] operator = "all" -> EvaluateAll(conditions, transaction)
          [] operator = "merchant_contains" -> EvaluateMerchantContains(condition, transaction)
          [] operator = "merchant_regex" -> EvaluateMerchantRegex(condition, transaction)
          [] operator \in AmountOperators -> EvaluateAmount(condition, transaction)
          [] operator = "is_recurring" ->
                Ok(Get(transaction, "is_recurring", PyBool(FALSE))
                     = Get(condition, "value", PyBool(FALSE)))
          [] operator = "date_range" -> EvaluateDateRange(condition, transaction)
          [] operator = "category_id_eq" ->
                Ok(Get(transaction, "category_id", PyNone) = Get(condition, "value", PyNone))
          [] OTHER -> Ok(FALSE)

\* ------------------------------------------------------------- validation

\* raise RuleValidationError(message), where the message names `name`.
Invalid(message, name) ==
    [raised |-> TRUE, val |-> FALSE, err |-> <<"RuleValidationError", message, name>>]

SUPPORTED_OPERATORS ==
    {"any", "all", "merchant_contains", "merchant_regex"} \cup AmountOperators
    \cup {"is_recurring", "date_range", "category_id_eq"}

RECURSIVE validate_condition(_)
RECURSIVE ValidateEach(_)

\* Lines 54-55: the children in order, up to the first that is rejected.
ValidateEach(conditions) ==
    IF conditions = <<>> THEN Ok(PyNone)
    ELSE LET first == validate_condition(Head(conditions))
         IN  IF first.raised THEN first ELSE ValidateEach(Tail(conditions))

\* Mutant of ValidateCombinator: the children are not looked at.
ValidateCombinatorShallow(condition) ==
    LET operator == condition["operator"]
    IN  IF "conditions" \notin DOMAIN condition
        THEN Invalid("operator requires 'conditions' array", operator)
        ELSE IF condition["conditions"].t # "list"
        THEN Invalid("conditions must be a list", operator)
        ELSE IF Len(condition["conditions"].v) = 0
        THEN Invalid("conditions cannot be empty", operator)
        ELSE Ok(PyNone)

\* Lines 45-55.
ValidateCombinator(condition) ==
    LET operator == condition["operator"]
    IN  IF "conditions" \notin DOMAIN condition
        THEN Invalid("operator requires 'conditions' array", operator)
        ELSE IF condition["conditions"].t # "list"
        THEN Invalid("conditions must be a list", operator)
        ELSE IF Len(condition["conditions"].v) = 0
        THEN Invalid("conditions cannot be empty", operator)
        ELSE ValidateEach(condition["conditions"].v)

\* Mutant of ValidateMerchantRegex: the pattern is not compiled.
ValidateMerchantRegexUncompiled(condition) ==
    IF "value" \notin DOMAIN condition
    THEN Invalid("requires 'value' field", "merchant_regex")
    ELSE IF condition["value"].t # "str"
    THEN Invalid("value must be a string", "merchant_regex")
    ELSE Ok(PyNone)

\* Lines 63-73.
ValidateMerchantRegex(condition) ==
    IF "value" \notin DOMAIN condition
    THEN Invalid("requires 'value' field", "merchant_regex")
    ELSE IF condition["value"].t # "str"
    THEN Invalid("value must be a string", "merchant_regex")
    ELSE IF ReCompile(condition["value"].v).raised
    THEN Invalid("Invalid regex pattern", condition["value"].v)
    ELSE Ok(PyNone)

\* Mutant of UnknownOperator: the message does not say which operator.
UnknownOperatorUnnamed(operator) == Invalid("Unknown operator", "")

\* Lines 39-42.
UnknownOperator(operator) == Invalid("Unknown operator", operator)

\* validate_condition(condition): returns None, or raises.
validate_condition(condition) ==
    IF ~IsDict(condition) THEN Invalid("Condition must be a dictionary", "")
    ELSE IF "operator" \notin DOMAIN condition
    THEN Invalid("Condition must have 'operator' field", "operator")
    ELSE LET operator == condition["operator"]
             no_value == "value" \notin DOMAIN condition
         IN  IF operator \notin SUPPORTED_OPERATORS THEN UnknownOperator(operator)
             ELSE CASE operator \in {"any", "all"} -> ValidateCombinator(condition)
                    [] operator = "merchant_contains" ->
                          IF no_value THEN Invalid("requires 'value' field", operator)
                          ELSE IF condition["value"].t # "str"
                          THEN Invalid("value must be a string", operator)
                          ELSE Ok(PyNone)
                    [] operator = "merchant_regex" -> ValidateMerchantRegex(condition)
                    [] operator \in AmountOperators ->
                          IF no_value THEN Invalid("requires 'value' field", operator)
                          ELSE IF FloatOf(condition["value"]).raised
                          THEN Invalid("value must be numeric", operator)
                          ELSE Ok(PyNone)
                    [] operator = "is_recurring" ->
                          IF no_value THEN Invalid("requires 'value' field", operator)
                          ELSE IF condition["value"].t # "bool"
                          THEN Invalid("value must be boolean", operator)
                          ELSE Ok(PyNone)
                    [] operator = "date_range" ->
                          IF "start" \notin DOMAIN condition \/ "end" \notin DOMAIN condition
                          THEN Invalid("requires 'start' and 'end' fields", operator)
                          ELSE IF fromisoformat(condition["start"]).raised
                          THEN Invalid("must be ISO format date/datetime", "start")
                          ELSE IF fromisoformat(condition["end"]).raised
                          THEN Invalid("must be ISO format date/datetime", "end")
                          ELSE Ok(PyNone)
                    [] operator = "category_id_eq" ->
                          IF no_value THEN Invalid("requires 'value' field", operator)
                          ELSE IF ~IsInt(condition["value"])
                          THEN Invalid("value must be an integer", operator)
                          ELSE Ok(PyNone)

SUPPORTED_ACTIONS ==
    {"set_category", "set_tags", "recommend_budget_change", "recommend_goal",
     "stop_processing"}

\* validate_action(action): returns None, or raises. The lists of the model
\* hold str elements only, so the loop over the tags (lines 209-211) rejects
\* none.
validate_action(action) ==
    IF ~IsDict(action) THEN Invalid("Action must be a dictionary", "")
    ELSE IF "type" \notin DOMAIN action THEN Invalid("Action must have 'type' field", "type")
    ELSE LET action_type == action["type"]
         IN  IF action_type \notin SUPPORTED_ACTIONS
             THEN Invalid("Unknown action type", action_type)
             ELSE CASE action_type = "set_category" ->
                          IF "category_id" \notin DOMAIN action
                          THEN Invalid("action requires 'category_id'", action_type)
                          ELSE IF ~IsInt(action["category_id"])
                          THEN Invalid("category_id must be an integer", action_type)
                          ELSE Ok(PyNone)
                    [] action_type = "set_tags" ->
                          IF "tags" \notin DOMAIN action
                          THEN Invalid("action requires 'tags'", action_type)
                          ELSE IF action["tags"].t # "list"
                          THEN Invalid("tags must be a list", action_type)
                          ELSE Ok(PyNone)
                    [] action_type = "recommend_budget_change" ->
                          IF "change_percent" \notin DOMAIN action
                          THEN Invalid("requires 'change_percent'", action_type)
                          ELSE IF FloatOf(action["change_percent"]).raised
                          THEN Invalid("change_percent must be numeric", action_type)
                          ELSE Ok(PyNone)
                    [] action_type = "recommend_goal" ->
                          IF "goal_name" \notin DOMAIN action \/ "amount" \notin DOMAIN action
                          THEN Invalid("requires 'goal_name' and 'amount'", action_type)
                          ELSE IF action["goal_name"].t # "str"
                          THEN Invalid("goal_name must be a string", action_type)
                          ELSE IF FloatOf(action["amount"]).raised
                          THEN Invalid("amount must be numeric", action_type)
                          ELSE Ok(PyNone)
                    [] action_type = "stop_processing" -> Ok(PyNone)

\* Lines 287-290: the first required field the rule lacks, "" if none.
MissingField(rule_dict) ==
    IF "name" \notin DOMAIN rule_dict THEN "name"
    ELSE IF "condition" \notin DOMAIN rule_dict THEN "condition"
    ELSE IF "action" \notin DOMAIN rule_dict THEN "action"
    ELSE ""

\* Mutant of ValidatePriority: any priority is accepted.
ValidatePriorityAny(rule_dict) == Ok(PyNone)

\* Lines 299-303.
ValidatePriority(rule_dict) ==
    IF "priority" \in DOMAIN rule_dict /\ IntOf(rule_dict["priority"]).raised
    THEN Invalid("'priority' must be an integer", "priority")
    ELSE Ok(PyNone)

\* validate_rule(rule_dict): returns None, or raises.
validate_rule(rule_dict) ==
    IF ~IsDict(rule_dict) THEN Invalid("Rule must be a dictionary", "")
    ELSE IF MissingField(rule_dict) # ""
    THEN Invalid("Rule must have field", MissingField(rule_dict))
    ELSE IF validate_condition(rule_dict["condition"]).raised
    THEN validate_condition(rule_dict["condition"])
    ELSE IF validate_action(rule_dict["action"]).raised
    THEN validate_action(rule_dict["action"])
    ELSE ValidatePriority(rule_dict)

\* ------------------------------------------------------------------- state

VARIABLES
    dicts,          \* the dict objects, by address
    lists,          \* the list objects, by address
    hashOrder,      \* the iteration order of a set of str in this process
    transaction,    \* evaluate_transaction's argument: the caller's dict
    rules,          \* evaluate_transaction's argument: the rule list
    sorted_rules,   \* the local sorted_rules
    idx,            \* position of the for loop in sorted_rules
    modified_tx,    \* the local modified_tx: address of the working copy
    rule_trace,     \* the local rule_trace
    evaluated,      \* ids of the rules whose condition has been evaluated
    original,       \* the caller's dict and tags list as they were at the call; with
                    \* concurrent calls, the heap as it was before any of them
    call,           \* a direct ActionExecutor.execute call: action, result, explanation
    pc,             \* where the caller is: "call", "loop", "returned", "raised",
                    \* "executed"; "request", "validated", "evaluated"; "serving";
                    \* "concurrent"
    rules_cache,    \* RuleEngine.rules_cache
    cached,         \* the most recent set_cache or invalidate_cache call
    calls,          \* the locals of the evaluate_transaction calls in progress
    store,          \* the rows of the rule table
    saved,          \* the rows of the transaction table
    request,        \* the operation asked for last, with its arguments
    response        \* what it returned or raised

engineVars == <<dicts, lists, hashOrder, transaction, rules, sorted_rules, idx,
                modified_tx, rule_trace, evaluated, original, call>>

serviceVars == <<rules_cache, cached, calls, store, saved>>

vars == <<engineVars, pc, serviceVars, request, response>>

\* The tag strings of the model.
Tags == {"a", "b"}

\* list(set(elements)): each element once, in the set's iteration order.
ListOfSet(elements) == SelectSeq(hashOrder, LAMBDA tag : tag \in Range(elements))

\* The tags list a dict refers to, <<>> when it refers to none.
TagsOf(d, L) ==
    IF "tags" \in DOMAIN d /\ d["tags"].t = "list" THEN L[d["tags"].v] ELSE <<>>

\* A dict by value: its items, and the contents of its tags list.
Snapshot(d, L) ==
    [items |-> IF "tags" \in DOMAIN d /\ d["tags"].t = "list"
               THEN Put(d, "tags", PyList(0)) ELSE d,
     tags |-> TagsOf(d, L)]

\* --------------------------------------------------- ActionExecutor.execute

\* Mutant of DictCopy: no copy is made, the same dict object is used.
DictCopyAlias(D, a) == [dicts |-> D, addr |-> a]

\* dict.copy(): a new dict object with the same items (the tags list is shared).
DictCopy(D, a) == [dicts |-> Append(D, D[a]), addr |-> Len(D) + 1]

\* Each branch of execute works on the heap (D, L), where D[tx] is the copy,
\* and gives the heap afterwards and the explanation.

\* Mutant of ExecuteSetCategory: the target is added to the category number.
ExecuteSetCategoryAdded(action, D, L, tx) ==
    LET category_id == PyInt(Get(D[tx], "category_id", PyNone).v
                             + Get(action, "category_id", PyNone).v)
    IN  [dicts |-> [D EXCEPT ![tx] = Put(D[tx], "category_id", category_id)],
         lists |-> L, tx |-> tx,
         explanation |-> <<"Set category to", category_id>>]

\* Mutant of ExecuteSetCategory: a category that is already set is kept.
ExecuteSetCategoryOnce(action, D, L, tx) ==
    LET category_id == Get(action, "category_id", PyNone)
        kept == Get(D[tx], "category_id", PyNone)
    IN  [dicts |-> [D EXCEPT ![tx] = Put(D[tx], "category_id",
                                          IF kept = PyNone THEN category_id ELSE kept)],
         lists |-> L, tx |-> tx,
         explanation |-> <<"Set category to", category_id>>]

\* Lines 245-248.
ExecuteSetCategory(action, D, L, tx) ==
    LET category_id == Get(action, "category_id", PyNone)
    IN  [dicts |-> [D EXCEPT ![tx] = Put(D[tx], "category_id", category_id)],
         lists |-> L, tx |-> tx,
         explanation |-> <<"Set category to", category_id>>]

\* Mutant of ExecuteSetTags: a tag that is already there is taken away.
ExecuteSetTagsToggle(action, D, L, tx) ==
    LET L1 == IF "tags" \in DOMAIN action THEN L ELSE Append(L, <<>>)
        tags == IF "tags" \in DOMAIN action THEN action["tags"] ELSE PyList(Len(L1))
        existing_tags == Get(D[tx], "tags", PyList(0))
        existing == IF existing_tags.v = 0 THEN <<>> ELSE L1[existing_tags.v]
        toggled == SelectSeq(existing \o L1[tags.v],
                             LAMBDA tag : ~(tag \in Range(existing) /\ tag \in Range(L1[tags.v])))
    IN  IF existing_tags.t = "list"
        THEN [dicts |-> [D EXCEPT ![tx] = Put(D[tx], "tags", PyList(Len(L1) + 1))],
              lists |-> Append(L1, ListOfSet(toggled)),
              tx |-> tx,
              explanation |-> <<"Added tags", L1[tags.v]>>]
        ELSE [dicts |-> [D EXCEPT ![tx] = Put(D[tx], "tags", tags)],
              lists |-> L1, tx |-> tx,
              explanation |-> <<"Added tags", L1[tags.v]>>]

\* Lines 250-257. action.get('tags', []) and tx.get('tags', []) make a new
\* empty list when the key is missing.
ExecuteSetTags(action, D, L, tx) ==
    LET L1 == IF "tags" \in DOMAIN action THEN L ELSE Append(L, <<>>)
        tags == IF "tags" \in DOMAIN action THEN action["tags"] ELSE PyList(Len(L1))
        existing_tags == Get(D[tx], "tags", PyList(0))
        existing == IF existing_tags.v = 0 THEN <<>> ELSE L1[existing_tags.v]
    IN  IF existing_tags.t = "list"
        THEN [dicts |-> [D EXCEPT ![tx] = Put(D[tx], "tags", PyList(Len(L1) + 1))],
              lists |-> Append(L1, ListOfSet(existing \o L1[tags.v])),
              tx |-> tx,
              explanation |-> <<"Added tags", L1[tags.v]>>]
        ELSE [dicts |-> [D EXCEPT ![tx] = Put(D[tx], "tags", tags)],
              lists |-> L1, tx |-> tx,
              explanation |-> <<"Added tags", L1[tags.v]>>]

\* Lines 259-261.
ExecuteRecommendBudgetChange(action, D, L, tx) ==
    [dicts |-> D, lists |-> L, tx |-> tx,
     explanation |-> <<"Recommended budget change", Get(action, "change_percent", PyInt(0))>>]

\* Mutant of ExecuteRecommendGoal: the recommendation is stored on the dict.
ExecuteRecommendGoalStored(action, D, L, tx) ==
    [dicts |-> [D EXCEPT ![tx] = Put(D[tx], "goal_name", Get(action, "goal_name", PyNone))],
     lists |-> L, tx |-> tx,
     explanation |-> <<"Recommended goal", Get(action, "goal_name", PyNone),
                       Get(action, "amount", PyNone)>>]

\* Lines 263-266.
ExecuteRecommendGoal(action, D, L, tx) ==
    [dicts |-> D, lists |-> L, tx |-> tx,
     explanation |-> <<"Recommended goal", Get(action, "goal_name", PyNone),
                       Get(action, "amount", PyNone)>>]

\* Lines 268-270.
ExecuteStopProcessing(action, D, L, tx) ==
    [dicts |-> [D EXCEPT ![tx] = Put(D[tx], "_stop_processing", PyBool(TRUE))],
     lists |-> L, tx |-> tx,
     explanation |-> <<"Stopped further rule processing">>]

\* execute(action, transaction) on the heap (D, L): the heap afterwards, the
\* address of the returned dict and the explanation.
execute(action, tx_in, D, L) ==
    LET action_type == Get(action, "type", "")
        copy == DictCopy(D, tx_in)
        D1 == copy.dicts
        tx == copy.addr
    IN  CASE action_type = "set_category" -> ExecuteSetCategory(action, D1, L, tx)
          [] action_type = "set_tags" -> ExecuteSetTags(action, D1, L, tx)
          [] action_type = "recommend_budget_change" ->
                ExecuteRecommendBudgetChange(action, D1, L, tx)
          [] action_type = "recommend_goal" -> ExecuteRecommendGoal(action, D1, L, tx)
          [] action_type = "stop_processing" -> ExecuteStopProcessing(action, D1, L, tx)
          [] OTHER -> [dicts |-> D1, lists |-> L, tx |-> tx, explanation |-> <<"">>]

\* ------------------------------------------- RuleEngine.evaluate_transaction

\* key=lambda r: r.get('priority', 0)
PriorityKey(rule) == Get(rule, "priority", PyInt(0))

\* a < b on two sort keys of one type: int by value, str lexicographically.
KeyLess(a, b) ==
    IF a.t = "int" THEN a.v < b.v
    ELSE IndexIn(DigitTexts, a.v) < IndexIn(DigitTexts, b.v)

\* sorted() compares keys of different types as soon as the list holds both,
\* and that comparison raises TypeError.
SortRaises(rs) ==
    \E j, k \in 1..Len(rs) : PriorityKey(rs[j]).t # PriorityKey(rs[k]).t

\* Mutant of InsertByPriority: the rule goes in front of the rules whose key is
\* equal, so equal keys come out in reverse order of arrival.
RECURSIVE InsertByPriorityFront(_, _)
InsertByPriorityFront(rule, sorted) ==
    IF sorted = <<>> THEN <<rule>>
    ELSE IF ~KeyLess(PriorityKey(rule), PriorityKey(Head(sorted)))
         THEN <<rule>> \o sorted
         ELSE <<Head(sorted)>> \o InsertByPriorityFront(rule, Tail(sorted))

\* Insert rule into a list sorted by descending key, behind the rules whose key
\* is not smaller: equal keys keep the order of arrival.
RECURSIVE InsertByPriority(_, _)
InsertByPriority(rule, sorted) ==
    IF sorted = <<>> THEN <<rule>>
    ELSE IF KeyLess(PriorityKey(Head(sorted)), PriorityKey(rule))
         THEN <<rule>> \o sorted
         ELSE <<Head(sorted)>> \o InsertByPriority(rule, Tail(sorted))

\* Mutant of SortedRules: the rules are walked in input order.
SortedRulesInputOrder(rs) == rs

\* sorted(rules, key=..., reverse=True): stable, descending.
RECURSIVE SortedRules(_)
SortedRules(rs) ==
    IF rs = <<>> THEN <<>>
    ELSE InsertByPriority(rs[Len(rs)], SortedRules(SubSeq(rs, 1, Len(rs) - 1)))

\* The locals of one evaluate_transaction call together with the heap.
Frame ==
    [dicts |-> dicts, lists |-> lists, sorted_rules |-> sorted_rules, idx |-> idx,
     modified_tx |-> modified_tx, rule_trace |-> rule_trace,
     evaluated |-> evaluated, pc |-> pc]

\* Lines 325-333: copy the transaction, start the trace, sort the rules.
EnterCall(D, L, tx, rs) ==
    LET copy == DictCopy(D, tx)
    IN  [dicts |-> copy.dicts, lists |-> L,
         sorted_rules |-> IF SortRaises(rs) THEN <<>> ELSE SortedRules(rs),
         idx |-> 1, modified_tx |-> copy.addr, rule_trace |-> <<>>, evaluated |-> <<>>,
         pc |-> IF SortRaises(rs) THEN "raised"
                ELSE IF rs = <<>> THEN "returned" ELSE "loop"]

\* Mutant of IsActive: the flag is not looked at.
IsActiveIgnored(rule) == TRUE

\* Line 337: rule.get('is_active', True)
IsActive(rule) == Truthy(Get(rule, "is_active", PyBool(TRUE)))

\* Mutant of Matched: the condition is evaluated against the input transaction.
MatchedOnInput(c) ==
    LET rule == c.sorted_rules[c.idx]
    IN  IF "condition" \in DOMAIN rule
        THEN evaluate(rule["condition"], c.dicts[1])
        ELSE Raise("KeyError: 'condition'")

\* Line 342: the condition of the rule at c.idx against the working copy.
Matched(c) ==
    LET rule == c.sorted_rules[c.idx]
    IN  IF "condition" \in DOMAIN rule
        THEN evaluate(rule["condition"], c.dicts[c.modified_tx])
        ELSE Raise("KeyError: 'condition'")

\* Lines 344-347: the action of the rule at c.idx on the working copy.
Executed(c) ==
    execute(c.sorted_rules[c.idx]["action"], c.modified_tx, c.dicts, c.lists)

\* Mutant of StepKind: a rule whose condition is false is applied all the same.
StepKindFalseApplies(c) ==
    LET rule == c.sorted_rules[c.idx]
    IN  IF ~IsActive(rule) THEN "skip"
        ELSE IF Matched(c).raised THEN "error"
        ELSE IF "action" \notin DOMAIN rule THEN "error"
        ELSE IF Truthy(Get(Executed(c).dicts[Executed(c).tx], "_stop_processing", PyNone))
             THEN "break" ELSE "apply"

\* What the loop body does with the rule at c.idx.
StepKind(c) ==
    LET rule == c.sorted_rules[c.idx]
    IN  IF ~IsActive(rule) THEN "skip"
        ELSE IF Matched(c).raised THEN "error"
        ELSE IF ~Matched(c).val THEN "nomatch"
        ELSE IF "action" \notin DOMAIN rule THEN "error"
        ELSE IF Truthy(Get(Executed(c).dicts[Executed(c).tx], "_stop_processing", PyNone))
             THEN "break" ELSE "apply"

\* Lines 350-354.
TraceEntry(rule, explanation) ==
    [rule_id |-> Get(rule, "id", PyNone), name |-> Get(rule, "name", PyNone),
     explanation |-> explanation]

\* Mutant of ErrorEntry: the entry carries no error marker.
ErrorEntryUnmarked(rule, message) ==
    [rule_id |-> Get(rule, "id", PyNone), name |-> Get(rule, "name", PyNone),
     explanation |-> <<"Error", message>>]

\* Lines 363-368.
ErrorEntry(rule, message) ==
    [rule_id |-> Get(rule, "id", PyNone), name |-> Get(rule, "name", PyNone),
     explanation |-> <<"Error", message>>, error |-> TRUE]

\* Mutant of LoopExit: the loop does not break.
LoopExitNoBreak(kind, c) ==
    IF c.idx = Len(c.sorted_rules) THEN "returned" ELSE "loop"

\* Where the loop is after a pass of kind `kind`: break (line 359) and the end
\* of the list leave it, and the function returns.
LoopExit(kind, c) ==
    IF kind = "break" \/ c.idx = Len(c.sorted_rules) THEN "returned" ELSE "loop"

\* Mutant of Iterate: a rule whose condition is false is tried again.
IterateRetry(c) ==
    LET rule == c.sorted_rules[c.idx]
        kind == StepKind(c)
        message == IF Matched(c).raised THEN Matched(c).err ELSE "KeyError: 'action'"
        done == Executed(c)
        seen == IF kind = "skip" THEN c.evaluated
                ELSE Append(c.evaluated, Get(rule, "id", PyNone))
        next == [c EXCEPT !.idx = c.idx + 1, !.pc = LoopExit(kind, c), !.evaluated = seen]
    IN  CASE kind = "skip" -> next
          [] kind = "nomatch" -> c
          [] kind = "error" ->
               [next EXCEPT !.rule_trace = Append(c.rule_trace, ErrorEntry(rule, message))]
          [] kind = "apply" ->
               [next EXCEPT !.dicts = done.dicts, !.lists = done.lists,
                            !.modified_tx = done.tx,
                            !.rule_trace = Append(c.rule_trace,
                                                  TraceEntry(rule, done.explanation))]
          [] kind = "break" ->
               [next EXCEPT !.dicts = [done.dicts EXCEPT ![done.tx] =
                                          Pop(done.dicts[done.tx], "_stop_processing")],
                            !.lists = done.lists,
                            !.modified_tx = done.tx,
                            !.rule_trace = Append(c.rule_trace,
                                                  TraceEntry(rule, done.explanation))]

\* Lines 335-368: one pass of the loop body.
Iterate(c) ==
    LET rule == c.sorted_rules[c.idx]
        kind == StepKind(c)
        message == IF Matched(c).raised THEN Matched(c).err ELSE "KeyError: 'action'"
        done == Executed(c)
        seen == IF kind = "skip" THEN c.evaluated
                ELSE Append(c.evaluated, Get(rule, "id", PyNone))
        next == [c EXCEPT !.idx = c.idx + 1, !.pc = LoopExit(kind, c), !.evaluated = seen]
    IN  CASE kind \in {"skip", "nomatch"} -> next
          [] kind = "error" ->
               [next EXCEPT !.rule_trace = Append(c.rule_trace, ErrorEntry(rule, message))]
          [] kind = "apply" ->
               [next EXCEPT !.dicts = done.dicts, !.lists = done.lists,
                            !.modified_tx = done.tx,
                            !.rule_trace = Append(c.rule_trace,
                                                  TraceEntry(rule, done.explanation))]
          [] kind = "break" ->
               [next EXCEPT !.dicts = [done.dicts EXCEPT ![done.tx] =
                                          Pop(done.dicts[done.tx], "_stop_processing")],
                            !.lists = done.lists,
                            !.modified_tx = done.tx,
                            !.rule_trace = Append(c.rule_trace,
                                                  TraceEntry(rule, done.explanation))]

\* evaluate_transaction run to its end from frame c.
RECURSIVE RunFrom(_)
RunFrom(c) == IF c.pc = "loop" THEN RunFrom(Iterate(c)) ELSE c

\* evaluate_transaction(transaction, rules) as a function of the heap.
evaluate_transaction(D, L, tx, rs) == RunFrom(EnterCall(D, L, tx, rs))

\* What a finished call hands back: the returned dict by value, and the trace.
Returned(c) ==
    [transaction |-> Snapshot(c.dicts[c.modified_tx], c.lists), trace |-> c.rule_trace]

\* ------------------------------------------------------------------ inputs

\* Marks a key a dict does not have.
Absent == [t |-> "absent", v |-> 0]

\* The dict with the keys of fields whose value is not Absent.
MakeDict(fields) == [k \in {f \in DOMAIN fields : fields[f] # Absent} |-> fields[k]]

\* A transaction: its dict, whose tags list (if any) is list object 1.
MakeTransaction(amount, category_id, transaction_date, tags, stop) ==
    [items |-> MakeDict([amount |-> amount, category_id |-> category_id,
                         transaction_date |-> transaction_date,
                         is_recurring |-> PyBool(FALSE),
                         tags |-> tags.ref, _stop_processing |-> stop]),
     tags |-> tags.list]

NoTags == [ref |-> Absent, list |-> <<>>]
NullTags == [ref |-> PyNone, list |-> <<>>]
ListTags(list) == [ref |-> PyList(1), list |-> list]

\* The priorities of the stored rules of the model.
Priorities == {PyInt(1), PyInt(10)}

AmountGt == [operator |-> "amount_gt", value |-> PyInt(0)]
CategoryIdEq == [operator |-> "category_id_eq", value |-> PyInt(1)]
DateRange ==
    [operator |-> "date_range", start |-> PyStr("2024-01-01"), end |-> PyStr("2024-01-31")]

SetCategory == [type |-> "set_category", category_id |-> PyInt(1)]
\* A set_tags action's list is installed by LoadRule.
SetTags == [type |-> "set_tags"]
RecommendGoal ==
    [type |-> "recommend_goal", goal_name |-> PyStr("Vacation"), amount |-> PyInt(10)]
RecommendBudgetChange == [type |-> "recommend_budget_change", change_percent |-> PyInt(10)]
StopProcessing == [type |-> "stop_processing"]

\* Condition and action of the rules of the model: a condition on amount, one
\* on category_id (false until a rule has set the category) and one on
\* transaction_date (which raises on a transaction without a date).
RuleBodies ==
    { <<AmountGt, SetCategory>>, <<AmountGt, SetTags>>,
      <<AmountGt, RecommendGoal>>, <<AmountGt, StopProcessing>>,
      <<CategoryIdEq, SetTags>>,
      <<DateRange, SetCategory>>, <<DateRange, RecommendBudgetChange>> }

MakeRule(priority, is_active, condition, action, tags) ==
    [items |-> MakeDict([priority |-> priority, is_active |-> is_active,
                         condition |-> condition, action |-> action]),
     tags |-> tags]

\* Rule number k of the list: its id is k, its tags list is list object k + 1.
LoadRule(rule, k) ==
    LET action == rule.items["action"]
        loaded == IF action.type = "set_tags"
                  THEN [type |-> "set_tags", tags |-> PyList(k + 1)] ELSE action
    IN  [key \in DOMAIN rule.items \cup {"id", "name"} |->
            CASE key = "id" -> PyInt(k)
              [] key = "name" -> PyStr("rule")
              [] key = "action" -> loaded
              [] OTHER -> rule.items[key]]

\* Rules as the rule store holds them: integer priority, is_active flag.
StoredRules ==
    { MakeRule(priority, PyBool(active), body[1], body[2],
               IF body[2].type = "set_tags" THEN <<"a">> ELSE <<>>) :
        priority \in Priorities, active \in BOOLEAN, body \in RuleBodies }

\* Transactions with the fields of the transaction record.
RecordTransactions ==
    { MakeTransaction(PyInt(5), PyNone, transaction_date, ListTags(<<"b">>), Absent) :
        transaction_date \in {PyNone, PyDate(2)} }

HashOrders == {order \in [1..Cardinality(Tags) -> Tags] : Range(order) = Tags}

\* rules_cache: None, or the list it holds.
NoCache == [held |-> FALSE, rules |-> <<>>]
Cache(rs) == [held |-> TRUE, rules |-> rs]

\* Mutant of invalidate_cache: the cache is left as it is.
InvalidateCacheKept == rules_cache

\* Lines 305-307 and 309-311: the value of rules_cache afterwards.
set_cache(rs) == Cache(rs)
invalidate_cache == NoCache

\* A new RuleEngine (lines 278-279), empty tables, nothing asked yet.
NoService ==
    /\ rules_cache = NoCache
    /\ cached = [op |-> "__init__"]
    /\ calls = <<>>
    /\ store = <<>>
    /\ saved = <<>>
    /\ request = [op |-> ""]
    /\ response = [status |-> 0]

\* No evaluate_transaction call of the single caller.
NoCall ==
    /\ dicts = <<>>
    /\ lists = <<>>
    /\ transaction = 0
    /\ rules = <<>>
    /\ sorted_rules = <<>>
    /\ idx = 0
    /\ modified_tx = 0
    /\ rule_trace = <<>>
    /\ evaluated = <<>>
    /\ original = <<>>
    /\ call = <<>>

\* A caller about to call evaluate_transaction(tx, rs).
InitWith(Transactions, Rules) ==
    \E tx \in Transactions, n \in 0..MaxRules :
      \E rs \in [1..n -> Rules] :
        /\ dicts = <<tx.items>>
        /\ lists = <<tx.tags>> \o [k \in 1..n |-> rs[k].tags]
        /\ hashOrder \in HashOrders
        /\ transaction = 1
        /\ rules = [k \in 1..n |-> LoadRule(rs[k], k)]
        /\ sorted_rules = <<>>
        /\ idx = 0
        /\ modified_tx = 0
        /\ rule_trace = <<>>
        /\ evaluated = <<>>
        /\ original = Snapshot(tx.items, <<tx.tags>>)
        /\ call = <<>>
        /\ pc = "call"
        /\ NoService

Init == InitWith(RecordTransactions, StoredRules)

\* Rules that validate_rule accepts but the rule store never holds: without
\* priority or is_active, with a priority given as text, with a repeated tag.
LooseRules ==
    { MakeRule(priority, is_active, body[1], body[2],
               IF body[2].type = "set_tags" THEN <<"a", "a">> ELSE <<>>) :
        priority \in {Absent, PyInt(1), PyStr("5")},
        is_active \in {Absent, PyBool(FALSE)},
        body \in { <<AmountGt, SetTags>>, <<AmountGt, StopProcessing>>,
                   <<DateRange, RecommendGoal>>, <<CategoryIdEq, SetCategory>> } }

\* Transaction mappings beyond the transaction record: tags missing or null,
\* and a '_stop_processing' key of the caller's own.
LooseTransactions ==
    { MakeTransaction(PyInt(5), PyNone, PyNone, tags, stop) :
        tags \in {NoTags, NullTags, ListTags(<<"b">>)},
        stop \in {Absent, PyBool(TRUE), PyBool(FALSE)} }

InitAny == InitWith(LooseTransactions, LooseRules)

\* ----------------------------------------------------------------- actions

SetFrame(c) ==
    /\ dicts' = c.dicts
    /\ lists' = c.lists
    /\ sorted_rules' = c.sorted_rules
    /\ idx' = c.idx
    /\ modified_tx' = c.modified_tx
    /\ rule_trace' = c.rule_trace
    /\ evaluated' = c.evaluated
    /\ pc' = c.pc
    /\ UNCHANGED <<hashOrder, transaction, rules, original, call>>
    /\ UNCHANGED <<serviceVars, request, response>>

\* evaluate_transaction is entered: copy, empty trace, sort.
Call ==
    /\ pc = "call"
    /\ SetFrame(EnterCall(dicts, lists, transaction, rules))

\* The rule is inactive: continue.
SkipInactive ==
    /\ pc = "loop"
    /\ StepKind(Frame) = "skip"
    /\ SetFrame(Iterate(Frame))

\* The condition is false.
NoMatch ==
    /\ pc = "loop"
    /\ StepKind(Frame) = "nomatch"
    /\ SetFrame(Iterate(Frame))

\* The condition holds: execute the action, record it, go on.
Apply ==
    /\ pc = "loop"
    /\ StepKind(Frame) = "apply"
    /\ SetFrame(Iterate(Frame))

\* The condition holds and the flag is set after the action: pop it, break.
Break ==
    /\ pc = "loop"
    /\ StepKind(Frame) = "break"
    /\ SetFrame(Iterate(Frame))

\* The rule raised: record the error, go on.
RuleError ==
    /\ pc = "loop"
    /\ StepKind(Frame) = "error"
    /\ SetFrame(Iterate(Frame))

\* The caller calls ActionExecutor.execute(action, transaction) itself, with the
\* action of one of its rules.
Execute ==
    /\ pc = "call"
    /\ \E k \in 1..Len(rules) :
         LET done == execute(rules[k]["action"], transaction, dicts, lists)
         IN  /\ dicts' = done.dicts
             /\ lists' = done.lists
             /\ call' = [action |-> rules[k]["action"], tx |-> done.tx,
                         explanation |-> done.explanation]
    /\ pc' = "executed"
    /\ UNCHANGED <<hashOrder, transaction, rules, sorted_rules, idx, modified_tx,
                   rule_trace, evaluated, original>>
    /\ UNCHANGED <<serviceVars, request, response>>

Next == Call \/ Execute \/ SkipInactive \/ NoMatch \/ Apply \/ Break \/ RuleError

Spec == Init /\ [][Next]_vars

\* The interpreter runs the caller to the end: a step that can be taken is
\* taken (the call is synchronous, nothing else is scheduled). The rules are
\* stored rules of each kind of pass: applied, inactive, false, raising,
\* stopping.
SpecLive ==
    /\ InitWith(RecordTransactions,
                { MakeRule(PyInt(1), PyBool(TRUE), AmountGt, SetCategory, <<>>),
                  MakeRule(PyInt(10), PyBool(FALSE), AmountGt, SetCategory, <<>>),
                  MakeRule(PyInt(10), PyBool(TRUE), CategoryIdEq, SetTags, <<"a">>),
                  MakeRule(PyInt(1), PyBool(TRUE), DateRange, RecommendBudgetChange, <<>>),
                  MakeRule(PyInt(1), PyBool(TRUE), AmountGt, StopProcessing, <<>>) })
    /\ [][Next]_vars
    /\ WF_vars(Next)

\* The same engine on every input its signature and validate_rule admit.
SpecAny == InitAny /\ [][Next]_vars

\* ------------------------------------- rules that tie and rules that compete

\* Rules whose priority is missing, 0 or 1, active or not: the condition holds
\* at once (amount), holds once the category is 1, or raises (the transaction
\* has no date); the action sets the category to 1 or to 2, or stops the walk.
OrderRules ==
    { MakeRule(priority, PyBool(active), body[1], body[2], <<>>) :
        priority \in {Absent, PyInt(0), PyInt(1)}, active \in BOOLEAN,
        body \in { <<AmountGt, SetCategory>>,
                   <<AmountGt, [type |-> "set_category", category_id |-> PyInt(2)]>>,
                   <<AmountGt, StopProcessing>>,
                   <<CategoryIdEq, [type |-> "set_category", category_id |-> PyInt(2)]>>,
                   <<DateRange, SetCategory>> } }

InitOrder ==
    InitWith({MakeTransaction(PyInt(5), PyNone, PyNone, ListTags(<<"b">>), Absent)},
             OrderRules)

SpecOrder == InitOrder /\ [][Next]_vars

\* ------------------------------------------------- validation: inputs, steps

\* Deepest condition tree handed to validate_condition.
MaxDepth == 3

MerchantRegex == [operator |-> "merchant_regex", value |-> PyStr("^trader")]
IsRecurring == [operator |-> "is_recurring", value |-> PyBool(FALSE)]

\* One leaf for each kind of leaf operator, with the payload it requires.
WellFormedLeaves ==
    {[operator |-> "merchant_contains", value |-> PyStr("joe")], MerchantRegex, AmountGt,
     [operator |-> "amount_lte", value |-> PyStr("10")], IsRecurring, DateRange,
     CategoryIdEq}

\* Nodes with an unknown operator, with none, that are no dict, or whose
\* payload is missing or of the wrong type; combinators without 'conditions',
\* with one that is no list, with an empty one.
MalformedLeaves ==
    { [operator |-> "frobnicate", value |-> PyInt(1)],
      [value |-> PyInt(1)],
      PyStr("amount_gt"),
      [operator |-> "merchant_regex", value |-> PyStr("[invalid(")],
      [operator |-> "merchant_regex", value |-> PyInt(1)],
      [operator |-> "merchant_contains"],
      [operator |-> "amount_gt", value |-> PyStr("abc")],
      [operator |-> "is_recurring", value |-> PyInt(1)],
      [operator |-> "date_range", start |-> PyStr("2024-01-01")],
      [operator |-> "date_range", start |-> PyStr("tomorrow"), end |-> PyStr("2024-01-31")],
      [operator |-> "category_id_eq", value |-> PyStr("5")],
      [operator |-> "any"], [operator |-> "all", conditions |-> PyStr("amount_gt")],
      [operator |-> "any", conditions |-> PyListOf(<<>>)],
      [operator |-> "all", conditions |-> PyListOf(<<>>)] }

Combinators == {"any", "all"}

Leaves == WellFormedLeaves \cup MalformedLeaves

\* The condition trees of depth up to `depth`: a combinator has one child, or a
\* child and the leaf IsRecurring before or behind it.
RECURSIVE ConditionTrees(_)
ConditionTrees(depth) ==
    IF depth = 1 THEN Leaves
    ELSE LET below == ConditionTrees(depth - 1)
             lists_below == {<<t>> : t \in below} \cup {<<IsRecurring, t>> : t \in below}
                            \cup {<<t, IsRecurring>> : t \in below}
         IN  Leaves \cup { [operator |-> op, conditions |-> PyListOf(children)] :
                              op \in Combinators, children \in lists_below }

\* Actions with the payload their type requires, and actions without a type,
\* with an unknown one, that are no dict, or with a payload missing or of the
\* wrong type.
ActionCandidates ==
    { SetCategory, [type |-> "set_tags", tags |-> PyList(1)], RecommendBudgetChange,
      RecommendGoal, StopProcessing,
      [type |-> "launch"], [category_id |-> PyInt(1)], PyStr("set_category"),
      [type |-> "set_category"],
      [type |-> "set_category", category_id |-> PyStr("5")],
      [type |-> "set_tags"],
      [type |-> "set_tags", tags |-> PyStr("a")],
      [type |-> "recommend_budget_change", change_percent |-> PyStr("abc")],
      [type |-> "recommend_goal", goal_name |-> PyStr("Vacation")],
      [type |-> "recommend_goal", goal_name |-> PyInt(1), amount |-> PyInt(10)] }

\* Rule definitions as they reach validate_rule: each required field present
\* or not, a priority that is missing, an integer, digits, a word or null.
RuleCandidates ==
    { MakeDict([name |-> name, condition |-> condition, action |-> action,
                priority |-> priority]) :
        name \in {Absent, PyStr("rule")},
        condition \in {Absent, [key \in {} |-> PyNone], AmountGt, MerchantRegex,
                       [operator |-> "merchant_regex", value |-> PyStr("[invalid(")],
                       [operator |-> "all", conditions |->
                           PyListOf(<<IsRecurring, [operator |-> "frobnicate"]>>)],
                       [operator |-> "any", conditions |->
                           PyListOf(<<MerchantRegex, DateRange>>)]},
        action \in {Absent, SetCategory, StopProcessing, [type |-> "launch"],
                    [type |-> "set_tags"]},
        priority \in {Absent, PyInt(1), PyStr("5"), PyStr("high"), PyNone} }

\* Transactions that lack one of the fields the operators read, all of them,
\* or none.
FullTransaction ==
    [description |-> PyStr("Trader Joe's"), amount |-> PyInt(5),
     transaction_date |-> PyStr("2024-01-15"), category_id |-> PyInt(1),
     is_recurring |-> PyBool(FALSE)]

SparseTransactions ==
    {FullTransaction, [key \in {} |-> PyNone]}
    \cup {Pop(FullTransaction, key) : key \in DOMAIN FullTransaction}

InitValidate ==
    /\ NoCall
    /\ hashOrder = <<"a", "b">>
    /\ rules_cache = NoCache
    /\ cached = [op |-> "__init__"]
    /\ calls = <<>>
    /\ store = <<>>
    /\ saved = <<>>
    /\ request \in
          {[op |-> "validate_condition", arg |-> c] : c \in ConditionTrees(MaxDepth)}
          \cup {[op |-> "validate_action", arg |-> a] : a \in ActionCandidates}
          \cup {[op |-> "validate_rule", arg |-> r] : r \in RuleCandidates}
    /\ response = [status |-> 0]
    /\ pc = "request"

Answer(result) ==
    /\ response' = result
    /\ pc' = "validated"
    /\ UNCHANGED <<engineVars, serviceVars, request>>

ValidateCondition ==
    /\ pc = "request"
    /\ request.op = "validate_condition"
    /\ Answer(validate_condition(request.arg))

ValidateAction ==
    /\ pc = "request"
    /\ request.op = "validate_action"
    /\ Answer(validate_action(request.arg))

ValidateRule ==
    /\ pc = "request"
    /\ request.op = "validate_rule"
    /\ Answer(validate_rule(request.arg))

\* ConditionEvaluator.evaluate on a condition that validate_condition accepted.
Evaluate ==
    /\ pc = "validated"
    /\ request.op = "validate_condition"
    /\ ~response.raised
    /\ \E tx \in SparseTransactions :
          /\ request' = [op |-> "evaluate", arg |-> request.arg, transaction |-> tx]
          /\ response' = evaluate(request.arg, tx)
    /\ pc' = "evaluated"
    /\ UNCHANGED <<engineVars, serviceVars>>

NextValidate == ValidateCondition \/ ValidateAction \/ ValidateRule \/ Evaluate

SpecValidate == InitValidate /\ [][NextValidate]_vars

\* ------------------------------------- leaf conditions on amount and date

\* Largest amount, in hundredths, of the comparisons.
MaxCents == 2

\* A caller about to validate a leaf condition: an amount comparison whose
\* operand is a float of some hundredths, an integer or a text of digits, or
\* a date_range between two of the ISO texts, in either order.
InitLeaves ==
    /\ NoCall
    /\ hashOrder = <<"a", "b">>
    /\ rules_cache = NoCache
    /\ cached = [op |-> "__init__"]
    /\ calls = <<>>
    /\ store = <<>>
    /\ saved = <<>>
    /\ request \in
          { [op |-> "validate_condition", arg |-> [operator |-> operator, value |-> value]] :
              operator \in AmountOperators,
              value \in { [t |-> "float", v |-> c] : c \in (-MaxCents)..MaxCents }
                          \cup {PyInt(0), PyStr("5")} }
          \cup
          { [op |-> "validate_condition",
             arg |-> [operator |-> "date_range", start |-> PyStr(IsoTexts[i]),
                      end |-> PyStr(IsoTexts[j])]] : i, j \in 1..Len(IsoTexts) }
    /\ response = [status |-> 0]
    /\ pc = "request"

\* ConditionEvaluator.evaluate of the accepted leaf on a transaction that has
\* an amount (a float of some hundredths or an integer), a transaction_date
\* (an ISO text, or a datetime before, at or behind the days of the texts), or
\* neither.
EvaluateLeaf ==
    /\ pc = "validated"
    /\ request.op = "validate_condition"
    /\ ~response.raised
    /\ \E tx \in { [amount |-> a] : a \in { [t |-> "float", v |-> c] :
                                               c \in (-MaxCents)..MaxCents }
                                           \cup {PyInt(0), PyInt(5)} }
                  \cup { [transaction_date |-> d] :
                           d \in { PyStr(IsoTexts[i]) : i \in 1..Len(IsoTexts) }
                                 \cup { PyDate(i) : i \in 0..(Len(IsoTexts) + 1) } }
                  \cup { [key \in {} |-> PyNone] } :
          /\ request' = [op |-> "evaluate", arg |-> request.arg, transaction |-> tx]
          /\ response' = evaluate(request.arg, tx)
    /\ pc' = "evaluated"
    /\ UNCHANGED <<engineVars, serviceVars>>

NextLeaves == ValidateCondition \/ EvaluateLeaf

SpecLeaves == InitLeaves /\ [][NextLeaves]_vars

\* --------------------------------------------- the admin routes for rules

\* RuleDetailSchema().load(data), with partial=True for an update: name,
\* condition and action are required, condition and action are dicts.
SchemaLoad(data, partial) ==
    IF ~partial /\ ~({"name", "condition", "action"} \subseteq DOMAIN data)
    THEN Raise("ValidationError: Missing data for required field.")
    ELSE IF \E key \in {"condition", "action"} \cap DOMAIN data : ~IsDict(data[key])
    THEN Raise("ValidationError: Not a valid mapping type.")
    ELSE Ok(data)

\* create_sample_transaction(): its tags list is list object 1.
SampleTransaction ==
    [id |-> PyInt(999), amount |-> PyInt(50), description |-> PyStr("Trader Joe's"),
     transaction_date |-> PyDate(4), category_id |-> PyNone, tags |-> PyList(1),
     is_recurring |-> PyBool(FALSE), account_id |-> PyInt(1)]

BadRegex == [operator |-> "merchant_regex", value |-> PyStr("[invalid(")]

AnyOf(children) == [operator |-> "any", conditions |-> PyListOf(children)]

\* The JSON bodies of the requests: the dict, and the contents of the tags
\* list of its action, which is list object 2 when the body is evaluated.
Payload(fields, tags) == [items |-> MakeDict(fields), tags |-> tags]

CreatePayloads ==
    { Payload([name |-> PyStr("rule"), condition |-> body[1], action |-> body[2]], body[3]) :
        body \in { <<MerchantRegex, [type |-> "set_tags", tags |-> PyList(2)], <<"a">> >>,
                   <<AnyOf(<<MerchantRegex, DateRange>>), SetCategory, <<>> >>,
                   <<BadRegex, SetCategory, <<>> >>,
                   <<AnyOf(<<IsRecurring, BadRegex>>), StopProcessing, <<>> >>,
                   <<[operator |-> "frobnicate"], SetCategory, <<>> >>,
                   <<AmountGt, [type |-> "launch"], <<>> >> } }
    \cup { Payload([name |-> Absent, condition |-> AmountGt, action |-> SetCategory], <<>>) }

UpdatePayloads ==
    { Payload([condition |-> MerchantRegex], <<>>), Payload([condition |-> BadRegex], <<>>),
      Payload([action |-> [type |-> "launch"]], <<>>),
      Payload([is_active |-> PyBool(FALSE)], <<>>) }

\* The row with this id, <<>> if there is none: Rule.query.get(rule_id).
RowsWithId(rule_id) == SelectSeq(store, LAMBDA row : row.id = rule_id)

\* The id of the next row: one more than the largest id in the table.
NextId ==
    IF store = <<>> THEN 1
    ELSE 1 + (CHOOSE n \in { row.id : row \in Range(store) } :
                 \A row \in Range(store) : row.id =< n)

\* Lines 92-103: the row a create request inserts.
NewRow(payload) ==
    [id |-> NextId,
     items |-> [key \in {"name", "condition", "action", "priority", "is_active"} |->
                  CASE key = "priority" -> Get(payload.items, key, PyInt(0))
                    [] key = "is_active" -> Get(payload.items, key, PyBool(TRUE))
                    [] OTHER -> payload.items[key]],
     tags |-> payload.tags]

\* Mutant of UpdatedRule: the stored rule is validated, not the updated one.
UpdatedRuleStored(row, data) ==
    [key \in {"name", "condition", "action"} |-> row.items[key]]

\* Lines 139-143: the rule an update request validates.
UpdatedRule(row, data) ==
    [key \in {"name", "condition", "action"} |-> Get(data, key, row.items[key])]

\* A route has run: the table after the commit or rollback, the response, and
\* rule_engine.invalidate_cache() on the paths that commit.
Serve(asked, table, answer, committed) ==
    /\ request' = asked
    /\ store' = table
    /\ response' = answer
    /\ rules_cache' = IF committed THEN invalidate_cache ELSE rules_cache
    /\ cached' = IF committed THEN [op |-> "invalidate_cache"] ELSE cached
    /\ UNCHANGED <<engineVars, pc, calls, saved>>

\* POST /rules, lines 72-116.
CreateRule ==
    /\ pc = "serving"
    /\ NextId =< MaxRules
    /\ \E payload \in CreatePayloads :
         LET asked == [op |-> "create_rule", data |-> payload]
             loaded == SchemaLoad(payload.items, FALSE)
             verdict == validate_rule([key \in {"name", "condition", "action"} |->
                                         payload.items[key]])
         IN  IF loaded.raised
             THEN Serve(asked, store, [status |-> 400, error |-> loaded.err], FALSE)
             ELSE IF verdict.raised
             THEN Serve(asked, store, [status |-> 400, error |-> verdict.err], FALSE)
             ELSE Serve(asked, Append(store, NewRow(payload)), [status |-> 201], TRUE)

\* PUT /rules/<id>, lines 119-164.
UpdateRule ==
    /\ pc = "serving"
    /\ \E rule_id \in 1..MaxRules, payload \in UpdatePayloads :
         LET asked == [op |-> "update_rule", rule_id |-> rule_id, data |-> payload]
             found == RowsWithId(rule_id)
             loaded == SchemaLoad(payload.items, TRUE)
             verdict == validate_rule(UpdatedRule(found[1], payload.items))
             \* Lines 146-148: setattr(rule, key, value) for the keys of the data.
             set(row) ==
                 [row EXCEPT !.items = [key \in DOMAIN row.items |->
                                          Get(payload.items, key, row.items[key])],
                             !.tags = IF "action" \in DOMAIN payload.items
                                      THEN payload.tags ELSE row.tags]
         IN  IF found = <<>>
             THEN Serve(asked, store, [status |-> 404], FALSE)
             ELSE IF loaded.raised
             THEN Serve(asked, store, [status |-> 400, error |-> loaded.err], FALSE)
             ELSE IF {"condition", "action"} \cap DOMAIN payload.items # {} /\ verdict.raised
             THEN Serve(asked, store, [status |-> 400, error |-> verdict.err], FALSE)
             ELSE Serve(asked,
                        [k \in 1..Len(store) |->
                           IF store[k].id = rule_id THEN set(store[k])
                           ELSE store[k]],
                        [status |-> 200], TRUE)

\* DELETE /rules/<id>, lines 167-188.
DeleteRule ==
    /\ pc = "serving"
    /\ \E rule_id \in 1..MaxRules :
         LET asked == [op |-> "delete_rule", rule_id |-> rule_id]
         IN  IF RowsWithId(rule_id) = <<>>
             THEN Serve(asked, store, [status |-> 404], FALSE)
             ELSE Serve(asked, SelectSeq(store, LAMBDA row : row.id # rule_id),
                        [status |-> 200], TRUE)

\* POST /rules/<id>/toggle, lines 251-273.
ToggleRule ==
    /\ pc = "serving"
    /\ \E rule_id \in 1..MaxRules :
         LET asked == [op |-> "toggle_rule", rule_id |-> rule_id]
             flip(row) == [row EXCEPT !.items["is_active"] =
                                        PyBool(~Truthy(row.items["is_active"]))]
         IN  IF RowsWithId(rule_id) = <<>>
             THEN Serve(asked, store, [status |-> 404], FALSE)
             ELSE Serve(asked,
                        [k \in 1..Len(store) |->
                           IF store[k].id = rule_id THEN flip(store[k]) ELSE store[k]],
                        [status |-> 200], TRUE)

\* POST /rules/validate, lines 191-248: validate_rule, then a run of the rule
\* on the sample transaction. Besides the bodies of the create requests, a
\* rule that is false on the sample is submitted, and a rule whose amount
\* operand is the JSON value true: float() takes it, so validate_rule accepts
\* the rule.
ValidateRoute ==
    /\ pc = "serving"
    /\ \E payload \in CreatePayloads
                       \cup { Payload([name |-> PyStr("rule"), condition |-> condition,
                                       action |-> SetCategory], <<>>) :
                                condition \in {CategoryIdEq,
                                               [operator |-> "amount_gt",
                                                value |-> PyBool(TRUE)]} } :
         LET asked == [op |-> "validate_rule", data |-> payload]
             verdict == validate_rule(payload.items)
             run == evaluate_transaction(<<SampleTransaction>>, <<<<>>, payload.tags>>, 1,
                                         <<payload.items>>)
         IN  IF verdict.raised
             THEN Serve(asked, store, [status |-> 400, valid |-> FALSE, error |-> verdict.err],
                        FALSE)
             ELSE IF run.pc = "raised"
             THEN Serve(asked, store, [status |-> 200, valid |-> TRUE,
                                       evaluation_error |-> "TypeError"], FALSE)
             ELSE Serve(asked, store,
                        [status |-> 200, valid |-> TRUE,
                         sample_evaluation |->
                            [matched |-> Len(run.rule_trace) > 0, trace |-> run.rule_trace]],
                        FALSE)

InitAdmin ==
    /\ NoCall
    /\ hashOrder = <<"a", "b">>
    /\ NoService
    /\ pc = "serving"

NextAdmin == CreateRule \/ UpdateRule \/ DeleteRule \/ ToggleRule \/ ValidateRoute

SpecAdmin == InitAdmin /\ [][NextAdmin]_vars

\* ------------------------------------------- concurrent calls and the cache

\* Number of evaluate_transaction calls in flight on the one engine.
MaxCalls == 2

\* What each concurrent caller brings: the date of its transaction and its
\* own rule list. The first list is reordered by the sort and its second rule
\* sees the category its first one set; the first rule of the second list
\* raises on a transaction without a date and its second one stops.
Workloads ==
    { [date |-> PyDate(2),
       rules |-> << MakeRule(PyInt(1), PyBool(TRUE), CategoryIdEq, SetTags, <<"a">>),
                    MakeRule(PyInt(10), PyBool(TRUE), AmountGt, SetCategory, <<>>) >>],
      [date |-> PyNone,
       rules |-> << MakeRule(PyInt(1), PyBool(TRUE), DateRange, SetCategory, <<>>),
                    MakeRule(PyInt(1), PyBool(TRUE), AmountGt, StopProcessing, <<>>) >>] }

\* The list objects of the callers ws, caller after caller: the tags list of
\* the transaction, then the tags lists of the rules.
RECURSIVE HeapLists(_)
HeapLists(ws) ==
    IF ws = <<>> THEN <<>>
    ELSE LET last == ws[Len(ws)]
         IN  HeapLists(SubSeq(ws, 1, Len(ws) - 1)) \o << <<"b">> >>
               \o [k \in 1..Len(last.rules) |-> last.rules[k].tags]

OnHeap(c) == [c EXCEPT !.dicts = dicts, !.lists = lists]

\* Mutant of RulesArgument: the cached list is walked when there is one.
RulesCachedFirst(rs) == IF rules_cache.held THEN rules_cache.rules ELSE rs

\* Lines 329-333: the list that is sorted is the argument `rules`.
RulesArgument(rs) == rs

\* Caller i before its call: its transaction is dict object i, whose tags
\* list comes after the list objects of the callers before it, then come the
\* tags lists of its rules; the locals of its call are kept without the heap,
\* which is shared (dicts, lists).
InitConcurrent ==
    \E ws \in [1..MaxCalls -> Workloads] :
        LET base(i) == Len(HeapLists(SubSeq(ws, 1, i - 1)))
        IN  /\ dicts = [i \in 1..MaxCalls |->
                          MakeTransaction(PyInt(5), PyNone, ws[i].date,
                                          [ref |-> PyList(base(i) + 1), list |-> <<>>],
                                          Absent).items]
            /\ lists = HeapLists(ws)
            /\ calls = [i \in 1..MaxCalls |->
                          [transaction |-> i,
                           rules |-> [k \in 1..Len(ws[i].rules) |->
                                        LoadRule(ws[i].rules[k], base(i) + k)],
                           frame |-> [dicts |-> <<>>, lists |-> <<>>, sorted_rules |-> <<>>,
                                      idx |-> 0, modified_tx |-> 0, rule_trace |-> <<>>,
                                      evaluated |-> <<>>, pc |-> "call"]]]
            /\ hashOrder \in HashOrders
            /\ original = [dicts |-> dicts, lists |-> lists]
            /\ rules_cache = NoCache
            /\ cached = [op |-> "__init__"]
            /\ transaction = 0
            /\ rules = <<>>
            /\ sorted_rules = <<>>
            /\ idx = 0
            /\ modified_tx = 0
            /\ rule_trace = <<>>
            /\ evaluated = <<>>
            /\ call = <<>>
            /\ store = <<>>
            /\ saved = <<>>
            /\ request = [op |-> ""]
            /\ response = [status |-> 0]
            /\ pc = "concurrent"

\* Call i has moved to frame c: its locals are its own, the heap is shared.
Advance(i, c) ==
    /\ calls' = [calls EXCEPT ![i].frame = [c EXCEPT !.dicts = <<>>, !.lists = <<>>]]
    /\ dicts' = c.dicts
    /\ lists' = c.lists
    /\ UNCHANGED <<hashOrder, transaction, rules, sorted_rules, idx, modified_tx,
                   rule_trace, evaluated, original, call, pc>>
    /\ UNCHANGED <<rules_cache, cached, store, saved, request, response>>

\* Lines 325-333 of one of the calls.
EnterConcurrent ==
    /\ pc = "concurrent"
    /\ \E i \in 1..Len(calls) :
          /\ calls[i].frame.pc = "call"
          /\ Advance(i, EnterCall(dicts, lists, calls[i].transaction,
                                  RulesArgument(calls[i].rules)))

\* Lines 335-368: one pass of the loop of one of the calls.
StepConcurrent ==
    /\ pc = "concurrent"
    /\ \E i \in 1..Len(calls) :
          /\ calls[i].frame.pc = "loop"
          /\ Advance(i, Iterate(OnHeap(calls[i].frame)))

\* set_cache(rules), with the rule list of one of the callers.
SetCache ==
    /\ pc = "concurrent"
    /\ \E i \in 1..Len(calls) :
          /\ rules_cache' = set_cache(calls[i].rules)
          /\ cached' = [op |-> "set_cache", rules |-> calls[i].rules]
    /\ UNCHANGED <<engineVars, pc, calls, store, saved, request, response>>

\* invalidate_cache(), between the steps of the callers or between requests.
InvalidateCache ==
    /\ pc \in {"concurrent", "serving"}
    /\ rules_cache' = invalidate_cache
    /\ cached' = [op |-> "invalidate_cache"]
    /\ UNCHANGED <<engineVars, pc, calls, store, saved, request, response>>

NextConcurrent == EnterConcurrent \/ StepConcurrent \/ SetCache \/ InvalidateCache

SpecConcurrent == InitConcurrent /\ [][NextConcurrent]_vars

\* ------------------------------------------------------- TransactionService

\* Rows of the transactions table.
MaxTransactions == 1

\* Mutant of UserRules: a rule list the engine holds in its cache is used
\* instead of the rows of the table.
UserRulesCached ==
    IF rules_cache.held THEN {rules_cache.rules}
    ELSE LET active == SelectSeq(store, LAMBDA row : Truthy(row.items["is_active"]))
             n == Len(active)
         IN  { [k \in 1..n |-> active[order[k]]] :
                 order \in { f \in [1..n -> 1..n] :
                               /\ \A j, k \in 1..n : j # k => f[j] # f[k]
                               /\ \A j, k \in 1..n :
                                     j < k => active[f[j]].items["priority"].v
                                                >= active[f[k]].items["priority"].v } }

\* Lines 54-58, 159-163 and 415-419 of transaction.py: the active rows by descending
\* priority. The query gives no order to rows of equal priority, so any
\* order of them can come back.
UserRules ==
    LET active == SelectSeq(store, LAMBDA row : Truthy(row.items["is_active"]))
        n == Len(active)
    IN  { [k \in 1..n |-> active[order[k]]] :
            order \in { f \in [1..n -> 1..n] :
                          /\ \A j, k \in 1..n : j # k => f[j] # f[k]
                          /\ \A j, k \in 1..n :
                                j < k => active[f[j]].items["priority"].v
                                           >= active[f[k]].items["priority"].v } }

\* Lines 44-72 and 150-177: the dict built for the engine, which has no
\* 'tags'; the dicts built from the rows, where the tags list of the action of
\* the k-th row is list object k + 1; and the call of evaluate_transaction.
EvaluateFor(row, rows) ==
    LET tx_for_engine ==
            [description |-> row.description, amount |-> FloatOf(row.amount).val,
             type |-> PyStr("expense"), transaction_date |-> row.transaction_date,
             category_id |-> row.category_id, is_recurring |-> PyBool(FALSE)]
        rules_list ==
            [k \in 1..Len(rows) |->
               LET action == rows[k].items["action"]
               IN  [key \in DOMAIN rows[k].items \cup {"id"} |->
                      CASE key = "id" -> PyInt(rows[k].id)
                        [] key = "action" ->
                             IF "tags" \in DOMAIN action
                             THEN Put(action, "tags", PyList(k + 1)) ELSE action
                        [] OTHER -> rows[k].items[key]]]
    IN  evaluate_transaction(<<tx_for_engine>>,
                             << <<>> >> \o [k \in 1..Len(rows) |-> rows[k].tags],
                             1, rules_list)

\* The service has answered: the table after the commit, and what it returns
\* together with the rules the engine walked and what it returned. The stored category is
\* modified_tx.get("category_id") (lines 80 and 182); applied_rules are the ids
\* of the trace entries that are no error entries (lines 74 and 179).
Persist(asked, table, given, run) ==
    LET row == [given EXCEPT !.category_id =
                   Get(run.dicts[run.modified_tx], "category_id", PyNone)]
        applied == SelectSeq(run.rule_trace, LAMBDA entry : "error" \notin DOMAIN entry)
    IN  /\ request' = asked
        /\ saved' = IF given.id > Len(table) THEN Append(table, row)
                    ELSE [table EXCEPT ![given.id] = row]
        /\ response' = [status |-> 200, transaction |-> row,
                        applied_rules |-> [j \in 1..Len(applied) |-> applied[j].rule_id],
                        rules |-> run.sorted_rules, engine |-> Returned(run)]
        /\ UNCHANGED <<engineVars, pc, rules_cache, cached, calls, store>>

\* create_transaction, lines 24-125.
CreateTransaction ==
    /\ pc = "serving"
    /\ Len(saved) < MaxTransactions
    /\ \E tags \in {PyNone, PyListOf(<<"b">>)}, rows \in UserRules :
         LET asked == [op |-> "create_transaction", tags |-> tags]
             given == [id |-> Len(saved) + 1, description |-> PyStr("Trader Joe's"),
                       amount |-> PyInt(50), transaction_date |-> PyNone,
                       category_id |-> PyNone,
                       tags |-> IF Truthy(tags) THEN tags.v ELSE <<>>]
         IN  \E run \in {EvaluateFor(given, rows)} : Persist(asked, saved, given, run)

\* update_transaction, lines 127-200.
UpdateTransaction ==
    /\ pc = "serving"
    /\ \E transaction_id \in 1..MaxTransactions,
          kwargs \in { [description |-> PyStr("Shell Gas")], [tags |-> <<"a", "b">>] } :
         LET asked == [op |-> "update_transaction", transaction_id |-> transaction_id,
                       kwargs |-> kwargs]
             old == saved[transaction_id]
             given == [key \in DOMAIN old |-> Get(kwargs, key, old[key])]
         IN  IF transaction_id > Len(saved)
             THEN /\ request' = asked
                  /\ response' = [status |-> 0, error |-> "TransactionError"]
                  /\ UNCHANGED <<engineVars, pc, serviceVars>>
             ELSE \E rows \in UserRules :
                     \E run \in {EvaluateFor(given, rows)} :
                        Persist(asked, saved, given, run)

\* The rules table as the admin routes leave it: rows made by create requests
\* that were accepted, some of them switched off by a toggle; no transaction
\* yet.
InitService ==
    \E n \in 0..MaxRules :
      \E bodies \in [1..n -> { payload \in CreatePayloads :
                                 /\ ~SchemaLoad(payload.items, FALSE).raised
                                 /\ ~validate_rule(payload.items).raised }],
         active \in [1..n -> BOOLEAN] :
        /\ store = [k \in 1..n |->
                      [id |-> k,
                       items |-> [key \in {"name", "condition", "action", "priority",
                                           "is_active"} |->
                                    CASE key = "priority" -> PyInt(0)
                                      [] key = "is_active" -> PyBool(active[k])
                                      [] OTHER -> bodies[k].items[key]],
                       tags |-> bodies[k].tags]]
        /\ NoCall
        /\ hashOrder = <<"a", "b">>
        /\ rules_cache = NoCache
        /\ cached = [op |-> "__init__"]
        /\ calls = <<>>
        /\ saved = <<>>
        /\ request = [op |-> ""]
        /\ response = [status |-> 0]
        /\ pc = "serving"

NextService == CreateTransaction \/ UpdateTransaction

SpecService == InitService /\ [][NextService]_vars

\* ------------------------------------ edits, cache calls and evaluations

\* preview_csv, lines 361-457, of a CSV with one row: a row whose date does
\* not parse gives a warning; any other row is evaluated against the rules
\* loaded for it and nothing is stored.
PreviewCsv ==
    /\ pc = "serving"
    /\ \E date \in {PyStr("2024-01-15"), PyStr("")}, rows \in UserRules :
         LET asked == [op |-> "preview_csv", transaction_date |-> date]
             tx_date == fromisoformat(date)
             row == [description |-> PyStr("Trader Joe's"), amount |-> PyInt(50),
                     transaction_date |-> PyDate(tx_date.val), category_id |-> PyNone]
         IN  /\ request' = asked
             /\ IF tx_date.raised
                THEN response' = [status |-> 200, preview_rows |-> <<>>,
                                  warnings |-> <<"Invalid date format">>]
                ELSE \E run \in {EvaluateFor(row, rows)} :
                        LET applied == SelectSeq(run.rule_trace,
                                                 LAMBDA entry : "error" \notin DOMAIN entry)
                        IN  response' =
                              [status |-> 200,
                               preview_rows |->
                                 <<[category_id |-> Get(run.dicts[run.modified_tx],
                                                        "category_id", PyNone),
                                    applied_rules |-> [j \in 1..Len(applied) |->
                                                         applied[j].rule_id],
                                    rule_trace |-> run.rule_trace]>>,
                               warnings |-> <<>>,
                               rules |-> run.sorted_rules, engine |-> Returned(run)]
    /\ UNCHANGED <<engineVars, pc, serviceVars>>

\* set_cache(rules) between requests, with a rule list its caller holds: the
\* rows as they are now, or the empty list of a table without rules.
CacheRules ==
    /\ pc = "serving"
    /\ \E rows \in UserRules \cup {<<>>} :
          /\ rules_cache' = set_cache(rows)
          /\ cached' = [op |-> "set_cache", rules |-> rows]
    /\ UNCHANGED <<engineVars, pc, calls, store, saved, request, response>>

NextStale ==
    \/ CreateRule \/ UpdateRule \/ DeleteRule \/ ToggleRule
    \/ CacheRules \/ InvalidateCache
    \/ CreateTransaction \/ UpdateTransaction \/ PreviewCsv

SpecStale == InitAdmin /\ [][NextStale]_vars

\* ---------------------------------------------------------------- properties

\* The rule of the input list a trace entry belongs to (a rule's id is its
\* position in the input list).
RuleOfEntry(entry) == rules[entry["rule_id"].v]

IsErrorEntry(entry) == "error" \in DOMAIN entry

\* The position in sorted_rules of the rule with this id.
SortedPosition(id) == CHOOSE m \in 1..Len(sorted_rules) : sorted_rules[m]["id"] = id

\* The caller's heap as it was at the call: its dict, its tags list, and the
\* tags lists of the rules.
OriginalDict ==
    IF "tags" \in DOMAIN original.items /\ original.items["tags"].t = "list"
    THEN Put(original.items, "tags", PyList(1)) ELSE original.items

OriginalLists == <<original.tags>> \o SubSeq(lists, 2, Len(rules) + 1)

\* What evaluate_transaction returns for the caller's transaction and rule
\* list rs when it runs alone from the original heap.
Alone(rs) == Returned(evaluate_transaction(<<OriginalDict>>, OriginalLists, 1, rs))

RemoveAt(seq, k) == SubSeq(seq, 1, k - 1) \o SubSeq(seq, k + 1, Len(seq))

\* Positions of the trace entries written by a matched stop_processing rule.
StopEntries ==
    { j \in 1..Len(rule_trace) :
        /\ ~IsErrorEntry(rule_trace[j])
        /\ RuleOfEntry(rule_trace[j])["action"].type = "stop_processing" }

AdvisoryTypes == {"recommend_budget_change", "recommend_goal"}

\* C1: whenever two rules with different priorities both have a trace entry,
\* the entry of the rule with the larger priority comes first, whatever the
\* rules' positions in the input list.
C1_PriorityDescending ==
    \A j, k \in 1..Len(rule_trace) :
        LET pj == PriorityKey(RuleOfEntry(rule_trace[j])).v
            pk == PriorityKey(RuleOfEntry(rule_trace[k])).v
        IN  (j < k /\ pj # pk) => pj > pk

\* C1 witness: the rule listed second has the larger priority and its entry
\* is the first of the trace.
C1_Witness ==
    /\ pc = "returned"
    /\ Len(rules) >= 2
    /\ Len(rule_trace) = 2
    /\ rules[1]["priority"] = PyInt(1)
    /\ rules[2]["priority"] = PyInt(10)
    /\ rule_trace[1]["rule_id"] = PyInt(2)
    /\ rule_trace[2]["rule_id"] = PyInt(1)

\* C2: once an active stop_processing rule has matched, the walk is over: its
\* entry is the last of the trace, no rule behind it in sorted order has its
\* condition evaluated, and the returned transaction is the one the rules up to
\* and including the stop rule produce.
C2_ShortCircuit ==
    \A j \in StopEntries :
        LET s == SortedPosition(rule_trace[j]["rule_id"])
        IN  /\ pc = "returned"
            /\ j = Len(rule_trace)
            /\ \A m \in (s + 1)..Len(sorted_rules) :
                   sorted_rules[m]["id"] \notin Range(evaluated)
            /\ Returned(Frame) = Alone(SubSeq(sorted_rules, 1, s))

\* C2 witness: a stop rule matched and an active set_category rule whose
\* condition holds on the returned transaction comes behind it; the category
\* is still unset.
C2_Witness ==
    /\ pc = "returned"
    /\ \E j \in StopEntries :
         \E m \in (SortedPosition(rule_trace[j]["rule_id"]) + 1)..Len(sorted_rules) :
            /\ sorted_rules[m]["is_active"] = PyBool(TRUE)
            /\ sorted_rules[m]["condition"] = AmountGt
            /\ sorted_rules[m]["action"] = SetCategory
    /\ dicts[modified_tx]["category_id"] = PyNone

\* C3: the transaction evaluate_transaction returns never has the key
\* '_stop_processing', whatever keys the input carried.
C3_NoStopFlagReturned ==
    pc = "returned" => "_stop_processing" \notin DOMAIN dicts[modified_tx]

\* The rule the loop is at, and whether its condition raises on the working copy.
CurrentRule == sorted_rules[idx]

ConditionRaises(rule, tx) == evaluate(rule["condition"], tx).raised

ConditionHolds(rule, tx) ==
    /\ ~evaluate(rule["condition"], tx).raised
    /\ evaluate(rule["condition"], tx).val

Active(rule) == Get(rule, "is_active", PyBool(TRUE)) = PyBool(TRUE)

\* The ids of the active rules of a list, in the list's order.
ActiveIds(rs) == [k \in 1..Len(SelectSeq(rs, Active)) |-> SelectSeq(rs, Active)[k]["id"]]

\* The ids of the trace entries, in order.
TraceIds == [k \in 1..Len(rule_trace) |-> rule_trace[k]["rule_id"]]

\* A pass over an active rule whose condition raises: one entry for that rule,
\* marked as an error and carrying the message, is appended; the working copy
\* and the heap stay as they were; the loop moves to the next rule.
C4_ErrorStep ==
    (pc = "loop" /\ Active(CurrentRule) /\ ConditionRaises(CurrentRule, dicts[modified_tx]))
    => /\ Len(rule_trace') = Len(rule_trace) + 1
       /\ SubSeq(rule_trace', 1, Len(rule_trace)) = rule_trace
       /\ LET entry == rule_trace'[Len(rule_trace')]
          IN  /\ entry["rule_id"] = CurrentRule["id"]
              /\ "error" \in DOMAIN entry
              /\ entry["error"] = TRUE
              /\ entry["explanation"] =
                   <<"Error", evaluate(CurrentRule["condition"], dicts[modified_tx]).err>>
       /\ modified_tx' = modified_tx
       /\ dicts' = dicts
       /\ lists' = lists
       /\ idx' = idx + 1
       /\ pc' = IF idx < Len(sorted_rules) THEN "loop" ELSE "returned"

\* A finished walk that no stop rule cut short has evaluated every active
\* rule, errors or not; and when every active rule raises on the input, the
\* returned transaction is the input and the trace is one error entry per
\* active rule, in sorted order.
C4_ErrorsFinal ==
    pc = "returned" =>
      /\ StopEntries = {} => \A k \in 1..Len(rules) :
                                Active(rules[k]) => rules[k]["id"] \in Range(evaluated)
      /\ (\A k \in 1..Len(rules) : Active(rules[k]) => ConditionRaises(rules[k], OriginalDict))
         => /\ Snapshot(dicts[modified_tx], lists) = original
            /\ TraceIds = ActiveIds(sorted_rules)
            /\ \A j \in 1..Len(rule_trace) : IsErrorEntry(rule_trace[j])

\* C4: a rule that raises costs one error entry and nothing else: the working
\* copy is untouched, the remaining rules are still evaluated, and a run in
\* which every active rule raises returns the input with an all-error trace.
C4_ErrorRecovery == [][C4_ErrorStep /\ C4_ErrorsFinal']_vars

\* C4 witness: two active rules, both raised, and the walk returned.
C4_Witness ==
    /\ pc = "returned"
    /\ Len(rule_trace) = 2
    /\ \A j \in 1..2 : IsErrorEntry(rule_trace[j])
    /\ \A k \in 1..Len(rules) : Active(rules[k])
    /\ rule_trace[1]["rule_id"] # rule_trace[2]["rule_id"]

\* C5: evaluate_transaction never lets an exception out, for any rules that
\* pass validate_rule.
C5_NeverRaises == pc # "raised"

\* C6: an inactive rule is never evaluated, writes no trace entry, and the
\* call returns what it returns for the list without that rule.
C6_InactiveNoEffect ==
    \A k \in 1..Len(rules) :
        rules[k]["is_active"] = PyBool(FALSE) =>
          /\ PyInt(k) \notin Range(evaluated)
          /\ \A j \in 1..Len(rule_trace) : rule_trace[j]["rule_id"] # PyInt(k)
          /\ pc = "returned" => Returned(Frame) = Alone(RemoveAt(rules, k))

\* C6 witness: an inactive stop_processing rule whose condition holds sorts
\* first, and an active rule behind it was applied.
C6_Witness ==
    /\ pc = "returned"
    /\ Len(sorted_rules) >= 2
    /\ sorted_rules[1]["is_active"] = PyBool(FALSE)
    /\ sorted_rules[1]["action"] = StopProcessing
    /\ sorted_rules[1]["condition"] = AmountGt
    /\ Len(rule_trace) >= 1
    /\ ~IsErrorEntry(rule_trace[1])

\* The category_id a rule sees if it sees the effects of the rules applied
\* before it: the target of the last set_category entry written before the
\* rule's turn, the input's category_id if there is none.
RECURSIVE CategoryBefore(_, _)
CategoryBefore(id, j) ==
    IF j = 0 THEN Get(original.items, "category_id", PyNone)
    ELSE IF /\ ~IsErrorEntry(rule_trace[j])
            /\ RuleOfEntry(rule_trace[j])["action"].type = "set_category"
            /\ SortedPosition(rule_trace[j]["rule_id"]) < SortedPosition(id)
         THEN RuleOfEntry(rule_trace[j])["action"]["category_id"]
         ELSE CategoryBefore(id, j - 1)

\* C7: a category_id_eq rule that has been evaluated matched exactly when the
\* category set by the rules applied before it (not the input's category)
\* equals its operand.
C7_Pipeline ==
    \A k \in 1..Len(rules) :
        (rules[k]["condition"].operator = "category_id_eq" /\ PyInt(k) \in Range(evaluated))
        => ( (\E j \in 1..Len(rule_trace) :
                 rule_trace[j]["rule_id"] = PyInt(k) /\ ~IsErrorEntry(rule_trace[j]))
             <=> CategoryBefore(PyInt(k), Len(rule_trace)) = rules[k]["condition"]["value"] )

\* C7 witness: the input has no category, and a category_id_eq rule matched
\* behind a set_category rule.
C7_Witness ==
    /\ pc = "returned"
    /\ original.items["category_id"] = PyNone
    /\ \E j \in 2..Len(rule_trace) :
          /\ ~IsErrorEntry(rule_trace[j])
          /\ RuleOfEntry(rule_trace[j])["condition"] = CategoryIdEq
          /\ RuleOfEntry(rule_trace[j - 1])["action"] = SetCategory

\* C8: the caller's dict and the contents of its tags list are what they were
\* before the call, during and after evaluate_transaction and after execute.
C8_OriginalUntouched == Snapshot(dicts[transaction], lists) = original

\* C8 witness: execute ran a set_tags action on a transaction with a tags
\* list, and the returned dict's tags differ from the caller's.
C8_Witness ==
    /\ pc = "executed"
    /\ call.action.type = "set_tags"
    /\ original.tags # <<>>
    /\ TagsOf(dicts[call.tx], lists) # original.tags

\* C9: after set_tags the tags list holds the existing tags united with the
\* action's tags, each once, whatever the existing tags value was.
C9_SetTagsUnion ==
    (pc = "executed" /\ call.action.type = "set_tags") =>
        LET result == TagsOf(dicts[call.tx], lists)
            expected == Range(original.tags) \cup Range(lists[call.action["tags"].v])
        IN  /\ Range(result) = expected
            /\ Len(result) = Cardinality(expected)

\* C10: execute of an advisory action returns a dict equal to its input; a
\* walk in which only advisory rules matched returns the input, and its trace
\* has one entry for each active rule whose condition holds on the input or
\* raises, in sorted order.
C10_AdvisoryNoMutation ==
    /\ (pc = "executed" /\ call.action.type \in AdvisoryTypes)
       => Snapshot(dicts[call.tx], lists) = original
    /\ (/\ pc = "returned"
        /\ \A j \in 1..Len(rule_trace) :
              IsErrorEntry(rule_trace[j])
              \/ RuleOfEntry(rule_trace[j])["action"].type \in AdvisoryTypes)
       => /\ Snapshot(dicts[modified_tx], lists) = original
          /\ TraceIds = ActiveIds(SelectSeq(sorted_rules,
                            LAMBDA r : \/ ConditionRaises(r, OriginalDict)
                                       \/ ConditionHolds(r, OriginalDict)))

\* C10 witness: both rules of the list are advisory and both matched.
C10_Witness ==
    /\ pc = "returned"
    /\ Len(rule_trace) = 2
    /\ \A j \in 1..2 :
          /\ ~IsErrorEntry(rule_trace[j])
          /\ RuleOfEntry(rule_trace[j])["action"].type \in AdvisoryTypes
    /\ rule_trace[1]["rule_id"] # rule_trace[2]["rule_id"]

\* Positions of the trace entries written by an applied set_category rule.
SetCategoryEntries ==
    { j \in 1..Len(rule_trace) :
        /\ ~IsErrorEntry(rule_trace[j])
        /\ RuleOfEntry(rule_trace[j])["action"].type = "set_category" }

\* C11: execute of a set_category action with target c returns the input with
\* category_id = c, and execute of the same action on that result returns a
\* dict equal to it; and when evaluate_transaction has returned, running it
\* once more on the returned transaction with the set_category rule that was
\* applied last leaves the transaction, and so its category_id, as returned.
C11_SetCategoryIdempotent ==
    /\ (pc = "executed" /\ call.action.type = "set_category") =>
          LET first == Snapshot(dicts[call.tx], lists)
              again == execute(call.action, call.tx, dicts, lists)
          IN  /\ first = [original EXCEPT !.items =
                            Put(original.items, "category_id", call.action["category_id"])]
              /\ Snapshot(again.dicts[again.tx], again.lists) = first
    /\ (pc = "returned" /\ SetCategoryEntries # {}) =>
          LET last == CHOOSE j \in SetCategoryEntries : \A k \in SetCategoryEntries : k =< j
              rule == RuleOfEntry(rule_trace[last])
              again == evaluate_transaction(dicts, lists, modified_tx, <<rule>>)
          IN  /\ dicts[modified_tx]["category_id"] = rule["action"]["category_id"]
              /\ again.pc = "returned"
              /\ Returned(again).transaction = Snapshot(dicts[modified_tx], lists)

\* C11 witness: a set_category rule changed the category of the input, and its
\* condition holds on the returned transaction, so a second run applies the
\* action a second time.
C11_Witness ==
    /\ pc = "returned"
    /\ \E j \in SetCategoryEntries :
          ConditionHolds(RuleOfEntry(rule_trace[j]), dicts[modified_tx])
    /\ original.items["category_id"] # dicts[modified_tx]["category_id"]

\* The nodes of a condition tree: the node itself, and the nodes of the
\* children of a combinator whose 'conditions' is a list.
RECURSIVE Nodes(_)
Nodes(condition) ==
    {condition} \cup
    IF /\ IsDict(condition)
       /\ "operator" \in DOMAIN condition
       /\ condition["operator"] \in {"any", "all"}
       /\ "conditions" \in DOMAIN condition
       /\ condition["conditions"].t = "list"
    THEN UNION { Nodes(condition["conditions"].v[k]) :
                   k \in 1..Len(condition["conditions"].v) }
    ELSE {}

\* The twelve operators of section 4.1.
TwelveOperators ==
    {"any", "all", "merchant_contains", "merchant_regex", "amount_gt", "amount_gte",
     "amount_lt", "amount_lte", "amount_eq", "is_recurring", "date_range",
     "category_id_eq"}

HasUnknownOperator(node) ==
    /\ IsDict(node)
    /\ "operator" \in DOMAIN node
    /\ node["operator"] \notin TwelveOperators

IsValidationError(result) ==
    result.raised /\ result.err[1] = "RuleValidationError"

C13_CombinatorWellFormed ==
    (/\ pc = "validated"
     /\ request.op = "validate_condition"
     /\ IsDict(request.arg)
     /\ "operator" \in DOMAIN request.arg
     /\ request.arg["operator"] \in {"any", "all"})
    => ( ~response.raised <=>
           /\ "conditions" \in DOMAIN request.arg
           /\ request.arg["conditions"].t = "list"
           /\ Len(request.arg["conditions"].v) > 0
           /\ \A k \in 1..Len(request.arg["conditions"].v) :
                 ~validate_condition(request.arg["conditions"].v[k]).raised )

\* C13 witness: an accepted combinator with two children, one of them a
\* combinator itself.
C13_Witness ==
    /\ pc = "validated"
    /\ request.op = "validate_condition"
    /\ IsDict(request.arg)
    /\ "operator" \in DOMAIN request.arg
    /\ request.arg["operator"] = "any"
    /\ "conditions" \in DOMAIN request.arg
    /\ request.arg["conditions"].t = "list"
    /\ ~response.raised
    /\ Len(request.arg["conditions"].v) = 2
    /\ request.arg["conditions"].v[2]["operator"] = "all"

\* A priority that stands for an integer: an integer, or a text of digits.
RepresentableAsInteger(value) ==
    \/ value.t \in {"int", "bool"}
    \/ value.t = "str" /\ value.v \in {"5", "10"}

FieldRead(operator) ==
    CASE operator \in {"merchant_contains", "merchant_regex"} -> "description"
      [] operator \in {"amount_gt", "amount_gte", "amount_lt", "amount_lte", "amount_eq"} ->
            "amount"
      [] operator = "is_recurring" -> "is_recurring"
      [] operator = "date_range" -> "transaction_date"
      [] operator = "category_id_eq" -> "category_id"

\* C17: evaluate of a leaf condition that validate_condition accepts, against
\* a transaction without the field the operator reads, returns a boolean and
\* does not raise.
C17_MissingFieldsDefault ==
    (/\ pc = "evaluated"
     /\ request.arg["operator"] \notin {"any", "all"}
     /\ FieldRead(request.arg["operator"]) \notin DOMAIN request.transaction)
    => (~response.raised /\ response.val \in BOOLEAN)

\* A merchant_regex node whose pattern is a text that does not compile.
NonCompiling(node) ==
    /\ IsDict(node)
    /\ "operator" \in DOMAIN node
    /\ node["operator"] = "merchant_regex"
    /\ "value" \in DOMAIN node
    /\ node["value"].t = "str"
    /\ node["value"].v \notin CompilingPatterns

\* C14: a merchant_regex node whose pattern does not compile is rejected by
\* validate_condition, alone and at any depth of a tree, and by validate_rule;
\* the create and validate routes answer such a rule with status 400 and run
\* no evaluation; so every pattern of a stored rule, and of a rule the
\* validate route accepted, compiles, and its evaluation does not raise.
C14_TwoPhaseRegex ==
    /\ (/\ request.op \in {"create_rule", "validate_rule"}
        /\ "condition" \in DOMAIN request.data.items)
       => LET condition == request.data.items["condition"]
          IN  /\ \A node \in Nodes(condition) :
                    NonCompiling(node) =>
                       /\ IsValidationError(validate_condition(node))
                       /\ IsValidationError(validate_condition(condition))
                       /\ IsValidationError(validate_rule(request.data.items))
                       /\ response.status = 400
                       /\ DOMAIN response \cap {"sample_evaluation", "evaluation_error"} = {}
              /\ response.status \in {200, 201} =>
                    /\ \A node \in Nodes(condition) : ~NonCompiling(node)
                    /\ "evaluation_error" \notin DOMAIN response
    /\ \A k \in 1..Len(store) :
          \A node \in Nodes(store[k].items["condition"]) :
             /\ ~NonCompiling(node)
             /\ ~evaluate(node, SampleTransaction).raised

\* C14 witness: a create request whose condition holds a non-compiling
\* pattern below a combinator, behind a well-formed sibling, answered with 400
\* and the error that names the pattern, while the table holds a rule with a
\* pattern.
C14_Witness ==
    /\ request.op = "create_rule"
    /\ request.data.items["condition"] = AnyOf(<<IsRecurring, BadRegex>>)
    /\ response.status = 400
    /\ response.error = <<"RuleValidationError", "Invalid regex pattern", "[invalid(">>
    /\ \E k \in 1..Len(store) : store[k].items["condition"] = MerchantRegex

\* Every stored rule has a condition and an action that pass validation.
StoreValid ==
    \A k \in 1..Len(store) :
       /\ ~validate_condition(store[k].items["condition"]).raised
       /\ ~validate_action(store[k].items["action"]).raised

\* The rule a request asks to store fails validation: a field is missing, or
\* its condition or its action is rejected. For an update, the fields the
\* request leaves out are those of the stored row.
FailsValidation(rule) ==
    \/ ~({"name", "condition", "action"} \subseteq DOMAIN rule)
    \/ validate_condition(rule["condition"]).raised
    \/ validate_action(rule["action"]).raised

RequestedRule(asked, table) ==
    IF asked.op = "create_rule"
    THEN asked.data.items
    ELSE LET row == CHOOSE row \in Range(table) : row.id = asked.rule_id
         IN  [key \in {"name", "condition", "action"} |->
                Get(asked.data.items, key, row.items[key])]

\* C16: every stored rule passes validation, initially and after every
\* create, update, delete and toggle request; and a create request, or an
\* update request for a stored rule, whose rule fails validation is answered
\* with status 400 and leaves the table as it was.
C16_ValidationBlocks ==
    /\ StoreValid
    /\ [][/\ StoreValid'
          /\ (/\ \/ request'.op = "create_rule"
                  \/ /\ request'.op = "update_rule"
                     /\ \E row \in Range(store) : row.id = request'.rule_id
               /\ FailsValidation(RequestedRule(request', store)))
             => (response'.status = 400 /\ store' = store)]_vars

\* C16 witness: an update of a stored rule to a condition that fails
\* validation was answered with 400, and the table holds two rules.
C16_Witness ==
    /\ request.op = "update_rule"
    /\ request.data.items = MakeDict([condition |-> BadRegex])
    /\ \E row \in Range(store) : row.id = request.rule_id
    /\ response.status = 400
    /\ Len(store) = 2
    /\ StoreValid

\* What call i returns when it runs alone, from the heap as it was before any
\* call, on an engine whose cache nobody has touched.
ReturnedAlone(i) ==
    Returned(evaluate_transaction(original.dicts, original.lists,
                                  calls[i].transaction, calls[i].rules))

\* C18: every evaluate_transaction call that has returned, however its rule
\* steps were interleaved with those of the other calls and with set_cache and
\* invalidate_cache, returns the transaction and the trace it returns when it
\* runs alone; and no step of a call changes rules_cache.
C18_Reentrant ==
    /\ [](\A i \in 1..Len(calls) :
            calls[i].frame.pc = "returned" =>
               Returned(OnHeap(calls[i].frame)) = ReturnedAlone(i))
    /\ [][calls' # calls => rules_cache' = rules_cache]_vars

\* C18 witness: the second call entered first and is halfway through its
\* rules; the first call entered after it and has returned a trace of two
\* entries, the first one an error; the cache holds the rule list of the
\* second call.
C18_Witness ==
    /\ pc = "concurrent"
    /\ calls[1].frame.pc = "returned"
    /\ Len(calls[1].frame.rule_trace) = 2
    /\ "error" \in DOMAIN calls[1].frame.rule_trace[1]
    /\ calls[2].frame.pc = "loop"
    /\ calls[2].frame.idx = 2
    /\ calls[2].frame.modified_tx < calls[1].frame.modified_tx
    /\ rules_cache = Cache(calls[2].rules)

\* rules_cache is what the most recent cache call left: the list of a
\* set_cache, nothing after invalidate_cache and on a new engine.
CacheAsLastCall ==
    rules_cache = IF cached.op = "set_cache" THEN Cache(cached.rules) ELSE NoCache

\* C19: rules_cache is empty on a new engine, holds exactly the list of the
\* most recent set_cache when that was the last cache call, and is empty when
\* the last cache call was invalidate_cache; a step that is no cache call
\* leaves it as it is.
C19_CacheProtocol ==
    /\ CacheAsLastCall
    /\ [][CacheAsLastCall' /\ (cached' = cached => rules_cache' = rules_cache)]_vars

\* C19 witness: after set_cache with the first rule list, invalidate_cache and
\* calls that ran to their end, the cache is empty.
C19_Witness ==
    /\ pc = "concurrent"
    /\ cached.op = "invalidate_cache"
    /\ rules_cache = NoCache
    /\ \A i \in 1..Len(calls) : calls[i].frame.pc = "returned"

\* C20: after create_transaction or update_transaction the stored
\* transaction has the category_id of the transaction that
\* evaluate_transaction returned for the request, and every tag of that
\* transaction is on the stored one.
C20_PersistsEngineResult ==
    (request.op \in {"create_transaction", "update_transaction"} /\ response.status = 200)
    => LET row == saved[response.transaction.id]
           final == response.engine.transaction
       IN  /\ row.category_id = Get(final.items, "category_id", PyNone)
           /\ Range(final.tags) \subseteq Range(row.tags)

\* The combinator nodes of a tree that validate_condition accepted.
CombinatorNodes(condition) ==
    { node \in Nodes(condition) : node["operator"] \in {"any", "all"} }

\* C21: for a condition tree that validate_condition accepted and a
\* transaction, at every any/all node of the tree whose children all evaluate
\* to a boolean, evaluate returns a boolean: for 'any' the OR of the
\* children's values, for 'all' their AND.
C21_CombinatorSemantics ==
    pc = "evaluated" =>
       \A node \in CombinatorNodes(request.arg) :
          LET children == node["conditions"].v
              value(k) == evaluate(children[k], request.transaction)
              result == IF node = request.arg THEN response
                        ELSE evaluate(node, request.transaction)
          IN  (\A k \in 1..Len(children) : ~value(k).raised) =>
                 /\ ~result.raised
                 /\ node["operator"] = "any" =>
                       (result.val <=> \E k \in 1..Len(children) : value(k).val)
                 /\ node["operator"] = "all" =>
                       (result.val <=> \A k \in 1..Len(children) : value(k).val)

\* C21 witness: an 'all' node over a true leaf and an 'any' node, whose own
\* children are a true and a false leaf, has evaluated to true.
C21_Witness ==
    /\ pc = "evaluated"
    /\ "amount" \notin DOMAIN request.transaction
    /\ request.arg =
          [operator |-> "all", conditions |-> PyListOf(<<
              IsRecurring,
              [operator |-> "any", conditions |-> PyListOf(<<AmountGt, IsRecurring>>)]>>)]
    /\ ~evaluate(AmountGt, request.transaction).val
    /\ ~response.raised
    /\ response.val

\* The amount a value stands for, in hundredths: an integer is whole units, a
\* float of the model carries its hundredths, a text of digits is whole units.
Hundredths(value) ==
    CASE value.t = "int" -> 100 * value.v
      [] value.t = "float" -> value.v
      [] value.t = "str" -> IF value.v = "5" THEN 500 ELSE 1000

\* C22: an amount comparison returns exactly a > v, a >= v, a < v, a <= v or
\* a = v for the amount a of the transaction and the operand v, a transaction
\* without an amount counting as amount 0; and exactly one of amount_lt,
\* amount_eq and amount_gt holds for the pair.
C22_AmountExact ==
    (pc = "evaluated" /\ request.arg["operator"] \in
        {"amount_gt", "amount_gte", "amount_lt", "amount_lte", "amount_eq"})
    => LET a == IF "amount" \in DOMAIN request.transaction
                THEN Hundredths(request.transaction["amount"]) ELSE 0
           v == Hundredths(request.arg["value"])
           operator == request.arg["operator"]
           holds(op) == evaluate([operator |-> op, value |-> request.arg["value"]],
                                 request.transaction).val
       IN  /\ ~response.raised
           /\ response.val <=>
                 \/ operator = "amount_gt" /\ a > v
                 \/ operator = "amount_gte" /\ a >= v
                 \/ operator = "amount_lt" /\ a < v
                 \/ operator = "amount_lte" /\ a =< v
                 \/ operator = "amount_eq" /\ a = v
           /\ Cardinality({op \in {"amount_lt", "amount_eq", "amount_gt"} : holds(op)}) = 1

\* C22 witness: amounts one hundredth apart are told apart: 0.01 against the
\* operand 0.02 is no amount_gte.
C22_Witness ==
    /\ pc = "evaluated"
    /\ request.arg = [operator |-> "amount_gte", value |-> [t |-> "float", v |-> 2]]
    /\ request.transaction = [amount |-> [t |-> "float", v |-> 1]]
    /\ ~response.raised
    /\ ~response.val

\* The day of a transaction_date: the day an ISO text names, or the day of a
\* datetime.
DayOf(value) == IF value.t = "str" THEN IndexIn(IsoTexts, value.v) ELSE value.v

PriorityOrZero(rule) == IF "priority" \in DOMAIN rule THEN rule["priority"].v ELSE 0

\* Two rule ids in a sequence of ids keep the order of the input list when
\* their rules have the same priority.
TiesInInputOrder(ids) ==
    \A j, k \in 1..Len(ids) :
        (j < k /\ PriorityOrZero(rules[ids[j].v]) = PriorityOrZero(rules[ids[k].v]))
        => ids[j].v < ids[k].v

\* C23: the priority sort is stable: rules of equal priority (a missing
\* priority counting as 0) are evaluated, and their trace entries appear, in
\* the order they have in the input list.
C23_StableSort ==
    /\ TiesInInputOrder(evaluated)
    /\ TiesInInputOrder([j \in 1..Len(rule_trace) |-> rule_trace[j]["rule_id"]])

\* C23 witness: the first rule has no priority, the second has priority 0,
\* both were applied, and the trace lists them in input order.
C23_Witness ==
    /\ pc = "returned"
    /\ Len(rules) >= 2
    /\ "priority" \notin DOMAIN rules[1]
    /\ "priority" \in DOMAIN rules[2]
    /\ rules[2]["priority"] = PyInt(0)
    /\ Len(rule_trace) = 2
    /\ rule_trace[1]["rule_id"] = PyInt(1)
    /\ rule_trace[2]["rule_id"] = PyInt(2)
    /\ ~IsErrorEntry(rule_trace[1])
    /\ ~IsErrorEntry(rule_trace[2])

\* Positions of the trace entries written by an applied set_category rule.
CategoryEntries ==
    { j \in 1..Len(rule_trace) :
        /\ ~IsErrorEntry(rule_trace[j])
        /\ RuleOfEntry(rule_trace[j])["action"].type = "set_category" }

\* C27: last writer wins for category: when set_category rules were applied,
\* the returned category_id is the target of the one applied last, and that
\* rule is the one of lowest priority among them, the latest of the input
\* list among those of that priority.
C27_LastWriterWins ==
    (pc = "returned" /\ CategoryEntries # {}) =>
      \E last \in CategoryEntries :
        /\ \A j \in CategoryEntries : j =< last
        /\ dicts[modified_tx]["category_id"] = RuleOfEntry(rule_trace[last])["action"].category_id
        /\ \A j \in CategoryEntries \ {last} :
              \/ PriorityOrZero(RuleOfEntry(rule_trace[j]))
                    > PriorityOrZero(RuleOfEntry(rule_trace[last]))
              \/ /\ PriorityOrZero(RuleOfEntry(rule_trace[j]))
                       = PriorityOrZero(RuleOfEntry(rule_trace[last]))
                 /\ rule_trace[j]["rule_id"].v < rule_trace[last]["rule_id"].v

\* C27 witness: the rule of priority 1 sets category 1, the rule of priority 0
\* sets category 2, both were applied, and the returned category is 2.
C27_Witness ==
    /\ pc = "returned"
    /\ Cardinality(CategoryEntries) = 2
    /\ \E j, k \in CategoryEntries :
          /\ PriorityOrZero(RuleOfEntry(rule_trace[j])) = 1
          /\ RuleOfEntry(rule_trace[j])["action"].category_id = PyInt(1)
          /\ PriorityOrZero(RuleOfEntry(rule_trace[k])) = 0
          /\ RuleOfEntry(rule_trace[k])["action"].category_id = PyInt(2)
    /\ dicts[modified_tx]["category_id"] = PyInt(2)

\* One pass of the loop: an active rule whose condition holds on the working
\* copy, or raises on it, gets one entry at the end of the trace (marked as an
\* error exactly when it raised); any other rule gets none; the walk goes on
\* to the next rule unless the list is over or a stop_processing rule matched.
C24_TraceStep ==
    pc = "loop" =>
      LET tx == dicts[modified_tx]
          holds == Active(CurrentRule) /\ ConditionHolds(CurrentRule, tx)
          raises == Active(CurrentRule) /\ ConditionRaises(CurrentRule, tx)
      IN  /\ (holds \/ raises) =>
                /\ Len(rule_trace') = Len(rule_trace) + 1
                /\ SubSeq(rule_trace', 1, Len(rule_trace)) = rule_trace
                /\ rule_trace'[Len(rule_trace')]["rule_id"] = CurrentRule["id"]
                /\ IsErrorEntry(rule_trace'[Len(rule_trace')]) <=> raises
          /\ ~(holds \/ raises) => rule_trace' = rule_trace
          /\ idx' = idx + 1
          /\ sorted_rules' = sorted_rules
          /\ pc' = IF \/ idx = Len(sorted_rules)
                      \/ holds /\ CurrentRule["action"].type = "stop_processing"
                   THEN "returned" ELSE "loop"

\* The walk is over the rules of the input list, each once; no rule has two
\* entries; a returned empty trace comes with the input transaction.
C24_TraceFinal ==
    /\ pc \in {"loop", "returned"} =>
          /\ Len(sorted_rules) = Len(rules)
          /\ Range(sorted_rules) = Range(rules)
    /\ \A j, k \in 1..Len(rule_trace) :
          rule_trace[j]["rule_id"] = rule_trace[k]["rule_id"] => j = k
    /\ (pc = "returned" /\ rule_trace = <<>>) =>
          Snapshot(dicts[modified_tx], lists) = original

\* C24: the trace holds exactly one entry for each active rule, up to and
\* including the first matching stop_processing rule, whose condition matched
\* the then-current working copy or raised, and none for a rule whose
\* condition was false; with an empty trace the returned transaction is the
\* input.
C24_TraceComplete == C24_TraceFinal /\ [][C24_TraceStep /\ C24_TraceFinal']_vars

\* C24 witness: the walk returned a trace with an entry, and an active rule
\* was evaluated, found false, and has no entry.
C24_Witness ==
    /\ pc = "returned"
    /\ rule_trace # <<>>
    /\ \E k \in 1..Len(rules) :
          /\ Active(rules[k])
          /\ PyInt(k) \in Range(evaluated)
          /\ \A j \in 1..Len(rule_trace) : rule_trace[j]["rule_id"] # PyInt(k)

\* The walk so far: no rule was visited twice, the trace has no more entries
\* than there are active rules, and the loop has made at most len(rules)
\* passes.
C26_Bounded ==
    /\ \A j, k \in 1..Len(evaluated) : evaluated[j] = evaluated[k] => j = k
    /\ Len(evaluated) =< Len(rules)
    /\ Len(rule_trace) =< Cardinality({k \in 1..Len(rules) : Active(rules[k])})
    /\ pc \in {"loop", "returned"} => idx - 1 =< Len(rules)
    /\ pc = "loop" => idx =< Len(rules)

\* C26: evaluate_transaction terminates: every pass of the loop moves on by
\* one rule, the walk stays within the bounds above, and the call comes to
\* its end.
C26_Terminates ==
    /\ []C26_Bounded
    /\ [][pc = "loop" => (idx' = idx + 1 /\ rules' = rules)]_vars
    /\ <>(pc \in {"returned", "raised", "executed"})

\* C26 witness: a call over a full list of active rules made as many passes
\* as there are rules and returned.
C26_Witness ==
    /\ pc = "returned"
    /\ Len(rules) = MaxRules
    /\ idx = Len(rules) + 1
    /\ Len(evaluated) = Len(rules)

\* C28: a whole run is idempotent: when no rule of the list has a
\* category_id_eq condition, evaluate_transaction with the same rules on the
\* transaction it returned gives the same transaction (the tags as a set) and
\* the same trace.
C28_RerunIdempotent ==
    (/\ pc = "returned"
     /\ \A k \in 1..Len(rules) : rules[k]["condition"].operator # "category_id_eq")
    => \E again \in {Returned(evaluate_transaction(dicts, lists, modified_tx, rules))} :
          /\ again.trace = rule_trace
          /\ again.transaction.items = Snapshot(dicts[modified_tx], lists).items
          /\ Range(again.transaction.tags) = Range(Snapshot(dicts[modified_tx], lists).tags)

\* C28 witness: a set_tags rule and a set_category rule were both applied, so
\* the returned transaction differs from the input in tags and in category,
\* and no rule reads the category.
C28_Witness ==
    /\ pc = "returned"
    /\ Len(rule_trace) = 2
    /\ \A k \in 1..Len(rules) : rules[k]["condition"].operator # "category_id_eq"
    /\ \E j, k \in 1..2 :
          /\ ~IsErrorEntry(rule_trace[j]) /\ ~IsErrorEntry(rule_trace[k])
          /\ RuleOfEntry(rule_trace[j])["action"].type = "set_tags"
          /\ RuleOfEntry(rule_trace[k])["action"].type = "set_category"
    /\ Range(TagsOf(dicts[modified_tx], lists)) = {"a", "b"}
    /\ dicts[modified_tx]["category_id"] = PyInt(1)

\* The active rows of the rules table.
ActiveRows == { row \in Range(store) : row.items["is_active"] = PyBool(TRUE) }

C30_MatchedMeansApplied ==
    (request.op = "validate_rule" /\ "sample_evaluation" \in DOMAIN response)
    => (response.sample_evaluation.matched
          <=> ConditionHolds(request.data.items, SampleTransaction))

====
